---- MODULE Spec2Model ----
(***************************************************************************)
(* Course catalog service with a look-aside Redis cache.                   *)
(*                                                                         *)
(* The model has three layers, each translated from its source file:       *)
(*   - the serialization codec (encoding/json applied to CourseResponse),  *)
(*   - RedisService (the cache layer: Set/Get/Delete of course keys and of *)
(*     the list key, over a key/value store with per-key expiry),          *)
(*   - courseService (CreateCourse, GetAllCourses, GetCourseByID,          *)
(*     UpdateCourse, DeleteCourse) over the course repository.             *)
(* Every service operation is split at its repository and cache calls, so  *)
(* that concurrent requests interleave between those calls.                *)
(* Time is counted in minutes.                                             *)
(***************************************************************************)
EXTENDS Integers, Sequences, FiniteSets, TLC

\* ------------------------------------------------------------- bounds
MaxCourses == 2
MaxTime == 20
TickMinutes == 10
MaxOps == 3
MaxLimit == 2
Seeded == 1
MaxPage == 4

\* ------------------------------------------------------------- constants
CacheTTL == 15
SessionTTL == 1440
RateLimitWindow == 1
JWTTokenExpiry == 1440
DefaultPageSize == 10
MaxPageSize == 100

\* The request handlers that run concurrently.
Procs == {"p1", "p2"}

\* ------------------------------------------------------------- errors
NoErr == ""
ErrRedis == "redis: connection refused"
ErrDecode == "json: cannot unmarshal"
ErrDB == "database error"
ErrRecordNotFound == "record not found"
ErrCourseNotFound == "course not found"
ErrInvalidEmail == "invalid email format"
ErrAlreadyEnrolled == "student is already enrolled in this course"
ErrEnrollmentNotFound == "enrollment not found"
ErrUniqueViolation == "duplicate key value violates unique constraint"
ErrForeignKeyViolation == "insert or update violates foreign key constraint"

\* ------------------------------------------------------------- values
\* A nil pointer is the empty sequence, a non-nil pointer a sequence of one.
Nil == <<>>

\* uuid.New(): the n-th identifier handed out; String() of it.
Id(n) == "u" \o ToString(n)

IdSet == {Id(n) : n \in 1..MaxCourses}

\* A variant that writes the time to a coarser unit.
TimeStr_Coarse(n) == "T" \o ToString((n \div 2) * 2)

\* time.Time as encoding/json writes it.
TimeStr(n) == "T" \o ToString(n)

\* time.Time as encoding/json reads it: Nil when the text is no timestamp.
ParseTime(s) ==
    IF \E n \in 0..(MaxCourses + 1) : TimeStr(n) = s
    THEN <<CHOOSE n \in 0..(MaxCourses + 1) : TimeStr(n) = s>>
    ELSE Nil

\* models.CourseRequest: the payloads the handlers pass to the service.
Requests ==
    { [title |-> "Go", description |-> "basics", difficulty |-> "Beginner",
       image_url |-> Nil],
      [title |-> "Rust", description |-> "ownership", difficulty |-> "Advanced",
       image_url |-> <<"https://img/rust.jpg">>] }

\* The demo course database.Seed inserts into an empty table.
DemoCourse ==
    [title |-> "Introduction to Go Programming", description |-> "fundamentals",
     difficulty |-> "Beginner", image_url |-> Nil]

\* A row of the courses table that does not exist.
NoRow == [id |-> ""]

\* models.Course built by CreateCourse from the request.
NewCourse(req, id, createdAt) ==
    [id |-> id, title |-> req.title, description |-> req.description,
     difficulty |-> req.difficulty, image_url |-> req.image_url,
     created_at |-> createdAt]

\* UpdateCourse's four assignments to the course it read.
ApplyRequest(course, req) ==
    [course EXCEPT !.title = req.title, !.description = req.description,
                   !.difficulty = req.difficulty, !.image_url = req.image_url]

\* Course.ToResponse
ToResponse(c) ==
    [id |-> c.id, title |-> c.title, description |-> c.description,
     difficulty |-> c.difficulty, image_url |-> c.image_url,
     created_at |-> c.created_at]

\* The zero value of models.CourseResponse.
ZeroResponse ==
    [id |-> "", title |-> "", description |-> "", difficulty |-> "",
     image_url |-> Nil, created_at |-> 0]

ToResponses(rows) == [i \in 1..Len(rows) |-> ToResponse(rows[i])]

\* ------------------------------------------------------------- codec
\* Bytes are a JSON document: an object with its members in order, an array
\* of documents, or text that is no JSON at all.
Garbage == [kind |-> "garbage"]

\* A variant that never writes image_url.
MarshalCourse_NoImage(v) ==
    [kind |-> "object",
     fields |-> <<
         <<"id", v.id>>,
         <<"title", v.title>>,
         <<"description", v.description>>,
         <<"difficulty", v.difficulty>>,
         <<"created_at", TimeStr(v.created_at)>> >>]

\* json.Marshal(*CourseResponse): image_url is omitted when the pointer is nil.
MarshalCourse(v) ==
    [kind |-> "object",
     fields |-> <<
         <<"id", v.id>>,
         <<"title", v.title>>,
         <<"description", v.description>>,
         <<"difficulty", v.difficulty>> >>
       \o (IF v.image_url = Nil THEN <<>> ELSE << <<"image_url", v.image_url[1]>> >>)
       \o << <<"created_at", TimeStr(v.created_at)>> >>]

\* json.Marshal([]*CourseResponse)
MarshalCourses(l) ==
    [kind |-> "array", items |-> [i \in 1..Len(l) |-> MarshalCourse(l[i])]]

\* The member of a JSON object with the given name: Nil when it has none.
Member(fields, name) ==
    IF \E i \in 1..Len(fields) : fields[i][1] = name
    THEN <<fields[CHOOSE i \in 1..Len(fields) : fields[i][1] = name][2]>>
    ELSE Nil

\* A string member read into a string field: the zero value when it is missing.
StringField(fields, name) ==
    IF Member(fields, name) = Nil THEN "" ELSE Member(fields, name)[1]

\* A variant that reads anything that is not an object as the zero value.
UnmarshalCourse_Lenient(data) ==
    IF data.kind # "object"
    THEN [value |-> ZeroResponse, err |-> NoErr]
    ELSE [value |->
            [id |-> StringField(data.fields, "id"),
             title |-> StringField(data.fields, "title"),
             description |-> StringField(data.fields, "description"),
             difficulty |-> StringField(data.fields, "difficulty"),
             image_url |-> Member(data.fields, "image_url"),
             created_at |-> IF Member(data.fields, "created_at") = Nil THEN 0
                            ELSE ParseTime(Member(data.fields, "created_at")[1])[1]],
          err |-> NoErr]

\* json.Unmarshal(data, &CourseResponse): [value, err].
UnmarshalCourse(data) ==
    IF data.kind # "object"
    THEN [value |-> ZeroResponse, err |-> ErrDecode]
    ELSE LET created == Member(data.fields, "created_at")
         IN IF created # Nil /\ ParseTime(created[1]) = Nil
            THEN [value |-> ZeroResponse, err |-> ErrDecode]
            ELSE [value |->
                    [id |-> StringField(data.fields, "id"),
                     title |-> StringField(data.fields, "title"),
                     description |-> StringField(data.fields, "description"),
                     difficulty |-> StringField(data.fields, "difficulty"),
                     image_url |-> Member(data.fields, "image_url"),
                     created_at |-> IF created = Nil THEN 0
                                    ELSE ParseTime(created[1])[1]],
                  err |-> NoErr]

\* json.Unmarshal(data, &[]*CourseResponse): [value, err].
UnmarshalCourses(data) ==
    IF data.kind # "array"
    THEN [value |-> <<>>, err |-> ErrDecode]
    ELSE IF \E i \in 1..Len(data.items) : UnmarshalCourse(data.items[i]).err # NoErr
    THEN [value |-> <<>>, err |-> ErrDecode]
    ELSE [value |-> [i \in 1..Len(data.items) |-> UnmarshalCourse(data.items[i]).value],
          err |-> NoErr]

\* ------------------------------------------------------------- backing store
\* A key of the backing store that holds nothing.
NoEntry == [data |-> [kind |-> "none"], expires |-> 0]

\* What TTL reports for a key that has no expiry.
NoExpiry == -1

\* client.Set(key, data, ttl) at time t: SET key data EX ttl when ttl is
\* positive, SET key data, which leaves the key without expiry, otherwise.
RedisSet(c, key, data, ttl, t) ==
    [c EXCEPT ![key] = [data |-> data,
                        expires |-> IF ttl > 0 THEN t + ttl ELSE NoExpiry]]

\* The entry under key has run out at time t.
Expired(c, key, t) == c[key].expires # NoExpiry /\ c[key].expires <= t

\* GET key at time t: Nil stands for redis.Nil.
RedisGet(c, key, t) ==
    IF c[key] = NoEntry \/ Expired(c, key, t) THEN Nil ELSE <<c[key].data>>

\* INCR key at time t: an absent key counts from zero and gets no expiry, a
\* present one keeps its expiry.
RedisIncr(c, key, t) ==
    IF RedisGet(c, key, t) = Nil
    THEN [c EXCEPT ![key] = [data |-> [kind |-> "int", n |-> 1], expires |-> NoExpiry]]
    ELSE [c EXCEPT ![key].data = [kind |-> "int", n |-> c[key].data.n + 1]]

\* EXPIRE key ttl at time t: a ttl that is not positive deletes the key.
RedisExpire(c, key, ttl, t) ==
    IF RedisGet(c, key, t) = Nil THEN c
    ELSE IF ttl > 0 THEN [c EXCEPT ![key].expires = t + ttl]
    ELSE [c EXCEPT ![key] = NoEntry]

\* DEL key: a key that is absent is no error.
RedisDel(c, key) == [c EXCEPT ![key] = NoEntry]

\* ------------------------------------------------------------- RedisService
\* A variant that builds the entity key with the prefix of the list key.
CourseKey_ListPrefix(courseID) == "courses:" \o courseID

CourseKey(courseID) == "course:" \o courseID

CoursesKey == "courses:all"

Keys == {CourseKey(i) : i \in IdSet} \cup {CoursesKey}

\* A variant that stores the course under the list key.
SetCourse_ListKey(c, course, t, up) ==
    IF up
    THEN [cache |-> RedisSet(c, CoursesKey, MarshalCourse(course), CacheTTL, t),
          err |-> NoErr]
    ELSE [cache |-> c, err |-> ErrRedis]

\* A variant that stores the course with the session's time to live.
SetCourse_SessionTTL(c, course, t, up) ==
    IF up
    THEN [cache |-> RedisSet(c, CourseKey(course.id), MarshalCourse(course), SessionTTL, t),
          err |-> NoErr]
    ELSE [cache |-> c, err |-> ErrRedis]

\* A variant that stores the course without a time to live.
SetCourse_NoExpiry(c, course, t, up) ==
    IF up
    THEN [cache |-> RedisSet(c, CourseKey(course.id), MarshalCourse(course), 0, t),
          err |-> NoErr]
    ELSE [cache |-> c, err |-> ErrRedis]

\* SetCourse: [cache, err]. up is whether the backend answers this call.
SetCourse(c, course, t, up) ==
    IF up
    THEN [cache |-> RedisSet(c, CourseKey(course.id), MarshalCourse(course), CacheTTL, t),
          err |-> NoErr]
    ELSE [cache |-> c, err |-> ErrRedis]

\* GetCourse: [course, err]; course is Nil on a miss and on every error.
GetCourse(c, courseID, t, up) ==
    IF ~up THEN [course |-> Nil, err |-> ErrRedis]
    ELSE LET data == RedisGet(c, CourseKey(courseID), t)
         IN IF data = Nil THEN [course |-> Nil, err |-> NoErr]
            ELSE IF UnmarshalCourse(data[1]).err # NoErr
            THEN [course |-> Nil, err |-> UnmarshalCourse(data[1]).err]
            ELSE [course |-> <<UnmarshalCourse(data[1]).value>>, err |-> NoErr]

\* A variant that deletes the list key instead of the course's key.
DeleteCourse_ListKey(c, courseID, up) ==
    IF up THEN [cache |-> RedisDel(c, CoursesKey), err |-> NoErr]
    ELSE [cache |-> c, err |-> ErrRedis]

\* DeleteCourse: [cache, err].
DeleteCourse(c, courseID, up) ==
    IF up THEN [cache |-> RedisDel(c, CourseKey(courseID)), err |-> NoErr]
    ELSE [cache |-> c, err |-> ErrRedis]

\* SetCourses: [cache, err].
SetCourses(c, courses, t, up) ==
    IF up
    THEN [cache |-> RedisSet(c, CoursesKey, MarshalCourses(courses), CacheTTL, t),
          err |-> NoErr]
    ELSE [cache |-> c, err |-> ErrRedis]

\* GetCourses: [courses, err]; courses is Nil (a nil slice) on a miss and on
\* every error, and a sequence holding the slice otherwise.
GetCourses(c, t, up) ==
    IF ~up THEN [courses |-> Nil, err |-> ErrRedis]
    ELSE LET data == RedisGet(c, CoursesKey, t)
         IN IF data = Nil THEN [courses |-> Nil, err |-> NoErr]
            ELSE IF UnmarshalCourses(data[1]).err # NoErr
            THEN [courses |-> Nil, err |-> UnmarshalCourses(data[1]).err]
            ELSE [courses |-> <<UnmarshalCourses(data[1]).value>>, err |-> NoErr]

\* A variant that deletes a key under the entity prefix instead of the list key.
InvalidateCoursesCache_EntityPrefix(c, up) ==
    IF up THEN [cache |-> [k \in DOMAIN c |-> IF k = CourseKey("all") THEN NoEntry ELSE c[k]],
                err |-> NoErr]
    ELSE [cache |-> c, err |-> ErrRedis]

\* A variant that stores an empty list under the list key instead of deleting it.
InvalidateCoursesCache_StoresEmptyList(c, up) ==
    IF up THEN [cache |-> RedisSet(c, CoursesKey, MarshalCourses(<<>>), CacheTTL, 0),
                err |-> NoErr]
    ELSE [cache |-> c, err |-> ErrRedis]

\* InvalidateCoursesCache: [cache, err].
InvalidateCoursesCache(c, up) ==
    IF up THEN [cache |-> RedisDel(c, CoursesKey), err |-> NoErr]
    ELSE [cache |-> c, err |-> ErrRedis]

SessionKey(sessionID) == "session:" \o sessionID

RateLimitKey(userID) == "rate_limit:" \o userID

\* SetSession: [cache, err]; the user id is stored as it is.
SetSession(c, sessionID, userID, duration, t, up) ==
    IF up
    THEN [cache |-> RedisSet(c, SessionKey(sessionID), [kind |-> "string", s |-> userID],
                             duration, t),
          err |-> NoErr]
    ELSE [cache |-> c, err |-> ErrRedis]

\* GetSession: [userID, err]; the empty string when there is no session.
GetSession(c, sessionID, t, up) ==
    IF ~up THEN [userID |-> "", err |-> ErrRedis]
    ELSE IF RedisGet(c, SessionKey(sessionID), t) = Nil THEN [userID |-> "", err |-> NoErr]
    ELSE [userID |-> RedisGet(c, SessionKey(sessionID), t)[1].s, err |-> NoErr]

\* DeleteSession: [cache, err].
DeleteSession(c, sessionID, up) ==
    IF up THEN [cache |-> RedisDel(c, SessionKey(sessionID)), err |-> NoErr]
    ELSE [cache |-> c, err |-> ErrRedis]

\* CheckRateLimit: [cache, ok, err]. The count is read, and when it is below
\* the limit INCR and EXPIRE are sent in one pipeline.
CheckRateLimit(c, userID, limit, window, t, up) ==
    IF ~up THEN [cache |-> c, ok |-> FALSE, err |-> ErrRedis]
    ELSE LET got == RedisGet(c, RateLimitKey(userID), t)
             count == IF got = Nil THEN 0 ELSE got[1].n
         IN IF count >= limit THEN [cache |-> c, ok |-> FALSE, err |-> NoErr]
            ELSE [cache |-> RedisExpire(RedisIncr(c, RateLimitKey(userID), t),
                                        RateLimitKey(userID), window, t),
                  ok |-> TRUE, err |-> NoErr]

\* Set: [cache, err]; the value is stored as its JSON encoding.
Set(c, key, value, ttl, t, up) ==
    IF up
    THEN [cache |-> RedisSet(c, key, [kind |-> "string", s |-> value], ttl, t),
          err |-> NoErr]
    ELSE [cache |-> c, err |-> ErrRedis]

\* ------------------------------------------------------------- repository
\* The rows that exist, as a set.
Rows(s) == {s[i] : i \in {j \in DOMAIN s : s[j] # NoRow}}

\* ORDER BY created_at DESC over a set of rows.
RECURSIVE OrderByCreatedAtDesc(_)
OrderByCreatedAtDesc(rows) ==
    IF rows = {} THEN <<>>
    ELSE LET newest == CHOOSE r \in rows : \A q \in rows : q.created_at <= r.created_at
         IN <<newest>> \o OrderByCreatedAtDesc(rows \ {newest})

\* courseRepository.Create: INSERT of the n-th course; BeforeCreate gives it a
\* fresh uuid and autoCreateTime its creation instant.
RepoCreate(s, course) == [s EXCEPT ![course.id] = course]

\* courseRepository.GetAll
RepoGetAll(s) == OrderByCreatedAtDesc(Rows(s))

\* courseRepository.GetByID: [course, err].
RepoGetByID(s, id) ==
    IF s[id] = NoRow THEN [course |-> Nil, err |-> ErrRecordNotFound]
    ELSE [course |-> <<s[id]>>, err |-> NoErr]

\* courseRepository.Update: db.Save writes every column of the row with the
\* course's primary key, and inserts the row when no row has that key.
RepoUpdate(s, course) == [s EXCEPT ![course.id] = course]

\* courseRepository.Delete: [store, err]; no row affected is ErrRecordNotFound.
RepoDelete(s, id) ==
    IF s[id] = NoRow THEN [store |-> s, err |-> ErrRecordNotFound]
    ELSE [store |-> [s EXCEPT ![id] = NoRow], err |-> NoErr]


\* --- enrollments
\* The enrollment of a student in a course, if there is one.
EnrollmentsOf(es, email, courseID) ==
    {e \in es : e.student_email = email /\ e.course_id = courseID}

\* A variant of the existence check that never finds an enrollment.
ExistsByStudentAndCourse_NeverFinds(es, email, courseID) == FALSE

\* enrollmentRepository.ExistsByStudentAndCourse: COUNT(*) > 0.
ExistsByStudentAndCourse(es, email, courseID) == EnrollmentsOf(es, email, courseID) # {}

\* A variant of the insert on a table without the foreign key.
InsertEnrollment_NoForeignKey(es, s, row) ==
    IF EnrollmentsOf(es, row.student_email, row.course_id) # {}
    THEN [enrollments |-> es, err |-> ErrUniqueViolation]
    ELSE [enrollments |-> es \cup {row}, err |-> NoErr]

\* db.Create(enrollment) under the constraints of the enrollments table: the
\* foreign key to courses and UNIQUE (student_email, course_id).
InsertEnrollment(es, s, row) ==
    IF s[row.course_id] = NoRow THEN [enrollments |-> es, err |-> ErrForeignKeyViolation]
    ELSE IF EnrollmentsOf(es, row.student_email, row.course_id) # {}
    THEN [enrollments |-> es, err |-> ErrUniqueViolation]
    ELSE [enrollments |-> es \cup {row}, err |-> NoErr]

\* enrollmentRepository.GetByStudentAndCourse: [enrollment, err].
GetByStudentAndCourse(es, email, courseID) ==
    IF EnrollmentsOf(es, email, courseID) = {}
    THEN [enrollment |-> Nil, err |-> ErrRecordNotFound]
    ELSE [enrollment |-> <<CHOOSE e \in EnrollmentsOf(es, email, courseID) : TRUE>>,
          err |-> NoErr]

\* enrollmentRepository.Delete: no row affected is record-not-found.
EnrollmentDelete(es, id) ==
    IF \A e \in es : e.id # id THEN [enrollments |-> es, err |-> ErrRecordNotFound]
    ELSE [enrollments |-> {e \in es : e.id # id}, err |-> NoErr]

\* ON DELETE CASCADE of fk_enrollments_course_id.
OnDeleteCascade(es, courseID) == {e \in es : e.course_id # courseID}

\* mail.ParseAddress: an address is a local part and a domain.
ParseAddress(email) ==
    IF Len(email) = 2 /\ email[1] # "" /\ email[2] # "" THEN NoErr ELSE ErrInvalidEmail

\* --- handlers
StatusOK == 200
StatusCreated == 201
StatusNoContent == 204
StatusBadRequest == 400
StatusNotFound == 404
StatusConflict == 409
StatusInternalServerError == 500

\* CourseHandler.UpdateCourse: the status answered for the service's error.
UpdateCourseStatus(err) ==
    IF err = NoErr THEN StatusOK
    ELSE IF err = ErrRecordNotFound THEN StatusNotFound
    ELSE StatusInternalServerError

\* CourseHandler.DeleteCourse: the status answered for the service's error.
DeleteCourseStatus(err) ==
    IF err = NoErr THEN StatusNoContent
    ELSE IF err = ErrRecordNotFound THEN StatusNotFound
    ELSE StatusInternalServerError

\* EnrollmentHandler.EnrollStudent: the status answered for the service's error.
EnrollStudentStatus(err) ==
    IF err = NoErr THEN StatusCreated
    ELSE IF err = ErrInvalidEmail THEN StatusBadRequest
    ELSE IF err = ErrCourseNotFound THEN StatusBadRequest
    ELSE IF err = ErrAlreadyEnrolled THEN StatusConflict
    ELSE StatusInternalServerError

\* ------------------------------------------------------------- courseService
\* `if err == nil && cached != nil`: the cached value is served.
CacheHit(cached, err) == err = NoErr /\ cached # Nil

\* `if errors.Is(err, gorm.ErrRecordNotFound)`: the error the service returns
\* for a failed GetByID.
NotFoundOr(err) == IF err = ErrRecordNotFound THEN ErrCourseNotFound ELSE err

\* ------------------------------------------------------------- state
VARIABLES
    store,          \* the courses table: id -> row or NoRow
    nextId,         \* how many uuids have been handed out
    cache,          \* the backing store: key -> entry or NoEntry
    now,            \* the clock, in minutes
    backendUp,      \* whether the backing store answers calls
    redisService,   \* courseService.redisService # nil
    pc,             \* where each request handler is in its operation
    lid,            \* the id argument of the operation in progress
    lreq,           \* the request argument of the operation in progress
    lrows,          \* the rows the operation in progress read or created
    started,        \* how many operations have been started
    enrollments,    \* the enrollments table: a set of rows
    enrolled,       \* history: the pairs EnrollStudent has succeeded for
    request,        \* per handler: the admitted request it serves
    prov,           \* history: where each copy of repository data comes from
    last            \* history: the step just taken, with what it returned

vars == <<store, nextId, cache, now, backendUp, redisService, pc, lid, lreq, lrows,
          started, enrollments, enrolled, request, prov, last>>

NoRequest == [title |-> ""]

\* No request has passed the middleware for the handler.
NotAdmitted == [route |-> "", header |-> <<>>, at |-> 0]

\* What a step reports: the operation, whether it returned to the caller and
\* with what (err, val), whether val came from the cache (hit), the error of
\* the operation's repository call, the latest instant at which val was the
\* store's value (asOf), the time between the repository read that produced
\* val and the cache put or the return that followed it (slack), and what the
\* cache key the step is about held before the step (pre).
Event(p, op, step, id, done, err, val, hit, repoErr, asOf, slack) ==
    [proc |-> p, op |-> op, step |-> step, id |-> id, done |-> done, err |-> err,
     val |-> val, hit |-> hit, repoErr |-> repoErr, asOf |-> asOf, slack |-> slack,
     pre |-> "none"]

\* What a key holds at time t: nothing, bytes that decode, or bytes that do not.
EntryKind(c, k, t) ==
    IF RedisGet(c, k, t) = Nil THEN "none"
    ELSE IF RedisGet(c, k, t)[1] = Garbage THEN "garbage"
    ELSE "valid"

\* The event e of a step about key k.
About(e, k) == [e EXCEPT !.pre = EntryKind(cache, k, now)]

\* A step that returns nothing to a caller.
Step(p, op, step, id) == Event(p, op, step, id, FALSE, NoErr, <<>>, FALSE, NoErr, 0, 0)

\* A step that returns an error.
Failed(p, op, step, id, err, repoErr) ==
    Event(p, op, step, id, TRUE, err, <<>>, FALSE, repoErr, 0, 0)

EnvEvent(what) == Step("", what, what, "")

\* --- history of the copies
\* A copy is a cache entry (named by its key) or the rows a handler holds
\* (named by the handler). cur is the latest instant, up to the last change of
\* the store, at which the copy was the store's value; read is the instant of
\* the repository read the copy comes from; put the instant of its cache put.
NoProv == [cur |-> 0, read |-> 0, put |-> 0]

\* What the repository holds for a key.
ViewCourse(s, id) == IF s[id] = NoRow THEN Nil ELSE <<ToResponse(s[id])>>

ViewList(s) == ToResponses(RepoGetAll(s))

\* The copy named x is the value of store s.
IsCurrent(x, s) ==
    \/ x = CoursesKey /\ GetCourses(cache, now, TRUE).courses = <<ViewList(s)>>
    \/ \E id \in IdSet :
        /\ x = CourseKey(id)
        /\ GetCourse(cache, id, now, TRUE).course # Nil
        /\ GetCourse(cache, id, now, TRUE).course = ViewCourse(s, id)
    \/ x \in Procs /\ pc[x] = "get_set" /\ ToResponses(lrows[x]) = ViewCourse(s, lid[x])
    \/ x \in Procs /\ pc[x] = "getall_set" /\ ToResponses(lrows[x]) = ViewList(s)

\* The store changes from s to t: the copies that stop being its value were
\* its value until now.
StoreChanged(pr, s, t) ==
    [x \in DOMAIN pr |->
        IF IsCurrent(x, s) /\ ~IsCurrent(x, t) THEN [pr[x] EXCEPT !.cur = now] ELSE pr[x]]

\* The latest instant at which the copy named x was the store's value.
AsOf(x) == IF IsCurrent(x, store) THEN now ELSE prov[x].cur

\* database.Seed on an empty table: the demo courses, in creation order.
SeededStore ==
    [i \in IdSet |->
        IF \E n \in 1..Seeded : i = Id(n)
        THEN LET n == CHOOSE m \in 1..Seeded : i = Id(m) IN NewCourse(DemoCourse, i, n)
        ELSE NoRow]

\* main, then router.Setup: the table holds the demo courses, the backing
\* store is empty, and the service gets a Redis handle iff the ping succeeds.
Init ==
    /\ store = SeededStore
    /\ nextId = Seeded
    /\ cache = [k \in Keys |-> NoEntry]
    /\ now = 0
    /\ backendUp \in BOOLEAN
    /\ redisService = backendUp
    /\ pc = [p \in Procs |-> "idle"]
    /\ lid = [p \in Procs |-> ""]
    /\ lreq = [p \in Procs |-> NoRequest]
    /\ lrows = [p \in Procs |-> <<>>]
    /\ started = 0
    /\ prov = [x \in Keys \cup Procs |-> NoProv]
    /\ enrollments = {}
    /\ enrolled = {}
    /\ request = [p \in Procs |-> NotAdmitted]
    /\ last = EnvEvent("start")

\* The operation of p returns to its caller.
Return(p) ==
    /\ pc' = [pc EXCEPT ![p] = "idle"]
    /\ lid' = [lid EXCEPT ![p] = ""]
    /\ lreq' = [lreq EXCEPT ![p] = NoRequest]
    /\ lrows' = [lrows EXCEPT ![p] = <<>>]
    /\ request' = [request EXCEPT ![p] = NotAdmitted]

\* The operation of p goes on at the given step.
Goto(p, step, id, req, rows) ==
    /\ pc' = [pc EXCEPT ![p] = step]
    /\ lid' = [lid EXCEPT ![p] = id]
    /\ lreq' = [lreq EXCEPT ![p] = req]
    /\ lrows' = [lrows EXCEPT ![p] = rows]
    /\ UNCHANGED request

\* A handler starts an operation.
Start(p) ==
    /\ pc[p] = "idle"
    /\ started < MaxOps
    /\ started' = started + 1

\* In the actions below rs is `s.redisService != nil` of the service that
\* runs the operation.

\* --- CreateCourse
\* A variant that invalidates the list before it looks at the error of Create.
CreateCourse_Create_InvalidatesFirst(p, rs) ==
    /\ Start(p)
    /\ nextId < MaxCourses
    /\ \E req \in Requests, dbOK \in BOOLEAN :
        IF dbOK
        THEN LET course == NewCourse(req, Id(nextId + 1), nextId + 1)
             IN /\ store' = RepoCreate(store, course)
                /\ nextId' = nextId + 1
                /\ prov' = StoreChanged(prov, store, RepoCreate(store, course))
                /\ Goto(p, "create_invalidate", course.id, req, <<course>>)
                /\ last' = Step(p, "CreateCourse", "create", course.id)
                /\ cache' = cache
        ELSE /\ UNCHANGED <<store, nextId>>
             /\ cache' = IF rs THEN InvalidateCoursesCache(cache, backendUp).cache ELSE cache
             /\ prov' = [prov EXCEPT ![CoursesKey] = NoProv]
             /\ Return(p)
             /\ last' = Failed(p, "CreateCourse", "create", "", ErrDB, ErrDB)
    /\ UNCHANGED <<enrollments, enrolled, now, backendUp, redisService>>

\* courseRepo.Create; on an error the operation returns it.
CreateCourse_Create(p, rs) ==
    /\ Start(p)
    /\ nextId < MaxCourses
    /\ \E req \in Requests, dbOK \in BOOLEAN :
        IF dbOK
        THEN LET course == NewCourse(req, Id(nextId + 1), nextId + 1)
             IN /\ store' = RepoCreate(store, course)
                /\ nextId' = nextId + 1
                /\ prov' = StoreChanged(prov, store, RepoCreate(store, course))
                /\ Goto(p, "create_invalidate", course.id, req, <<course>>)
                /\ last' = Step(p, "CreateCourse", "create", course.id)
        ELSE /\ UNCHANGED <<store, nextId, prov>>
             /\ Return(p)
             /\ last' = Failed(p, "CreateCourse", "create", "", ErrDB, ErrDB)
    /\ UNCHANGED <<enrollments, enrolled, cache, now, backendUp, redisService>>

\* InvalidateCoursesCache when there is a Redis handle; its error is dropped.
CreateCourse_Invalidate(p, rs) ==
    /\ pc[p] = "create_invalidate"
    /\ LET r == IF rs THEN InvalidateCoursesCache(cache, backendUp)
                ELSE [cache |-> cache, err |-> NoErr]
       IN /\ cache' = r.cache
          /\ prov' = IF r.cache[CoursesKey] = NoEntry
                     THEN [prov EXCEPT ![CoursesKey] = NoProv] ELSE prov
    /\ last' = About(Event(p, "CreateCourse", "invalidate", lid[p], TRUE, NoErr,
                     ToResponses(lrows[p]), FALSE, NoErr, now, 0), CoursesKey)
    /\ Return(p)
    /\ UNCHANGED <<enrollments, enrolled, store, nextId, now, backendUp, redisService, started>>

\* --- GetAllCourses
\* GetCourses when there is a Redis handle: a hit returns the cached list.
GetAllCourses_Cache(p, rs) ==
    /\ Start(p)
    /\ LET r == IF rs THEN GetCourses(cache, now, backendUp)
                ELSE [courses |-> Nil, err |-> NoErr]
       IN IF rs /\ CacheHit(r.courses, r.err)
          THEN /\ Return(p)
               /\ last' = About(Event(p, "GetAllCourses", "cache", "", TRUE, NoErr,
                                r.courses[1], TRUE, NoErr, AsOf(CoursesKey),
                                prov[CoursesKey].put - prov[CoursesKey].read), CoursesKey)
          ELSE /\ Goto(p, "getall_repo", "", NoRequest, <<>>)
               /\ last' = About(Step(p, "GetAllCourses", "cache", ""), CoursesKey)
    /\ UNCHANGED <<enrollments, enrolled, store, nextId, cache, now, backendUp, redisService, prov>>

\* courseRepo.GetAll; on an error the operation returns it.
GetAllCourses_Repo(p, rs) ==
    /\ pc[p] = "getall_repo"
    /\ \E dbOK \in BOOLEAN :
        IF dbOK
        THEN /\ Goto(p, "getall_set", "", NoRequest, RepoGetAll(store))
             /\ prov' = [prov EXCEPT ![p] = [cur |-> now, read |-> now, put |-> 0]]
             /\ last' = Step(p, "GetAllCourses", "repo", "")
        ELSE /\ Return(p)
             /\ prov' = prov
             /\ last' = Failed(p, "GetAllCourses", "repo", "", ErrDB, ErrDB)
    /\ UNCHANGED <<enrollments, enrolled,
                 store, nextId, cache, now, backendUp, redisService, started>>

\* A variant that returns the error of SetCourses to the caller.
GetAllCourses_Set_ReturnsCacheError(p, rs) ==
    /\ pc[p] = "getall_set"
    /\ LET r == IF rs THEN SetCourses(cache, ToResponses(lrows[p]), now, backendUp)
                ELSE [cache |-> cache, err |-> NoErr]
       IN /\ cache' = r.cache
          /\ prov' = IF rs /\ r.err = NoErr
                     THEN [prov EXCEPT ![p] = NoProv,
                                       ![CoursesKey] = [cur |-> AsOf(p),
                                                        read |-> prov[p].read,
                                                        put |-> now]]
                     ELSE [prov EXCEPT ![p] = NoProv]
          /\ last' = IF r.err # NoErr
                     THEN About(Failed(p, "GetAllCourses", "set", "", r.err, NoErr), CoursesKey)
                     ELSE About(Event(p, "GetAllCourses", "set", "", TRUE, NoErr,
                                      ToResponses(lrows[p]), FALSE, NoErr, AsOf(p),
                                      now - prov[p].read), CoursesKey)
    /\ Return(p)
    /\ UNCHANGED <<enrollments, enrolled, store, nextId, now, backendUp, redisService, started>>

\* SetCourses when there is a Redis handle; its error is dropped.
GetAllCourses_Set(p, rs) ==
    /\ pc[p] = "getall_set"
    /\ LET r == IF rs THEN SetCourses(cache, ToResponses(lrows[p]), now, backendUp)
                ELSE [cache |-> cache, err |-> NoErr]
       IN /\ cache' = r.cache
          /\ prov' = IF rs /\ r.err = NoErr
                     THEN [prov EXCEPT ![p] = NoProv,
                                       ![CoursesKey] = [cur |-> AsOf(p),
                                                        read |-> prov[p].read,
                                                        put |-> now]]
                     ELSE [prov EXCEPT ![p] = NoProv]
    /\ last' = About(Event(p, "GetAllCourses", "set", "", TRUE, NoErr,
                     ToResponses(lrows[p]), FALSE, NoErr, AsOf(p), now - prov[p].read), CoursesKey)
    /\ Return(p)
    /\ UNCHANGED <<enrollments, enrolled, store, nextId, now, backendUp, redisService, started>>

\* --- GetCourseByID
\* A variant that reads the repository after a hit as well.
GetCourseByID_Cache_AlwaysReadsRepository(p, rs) ==
    /\ Start(p)
    /\ \E id \in IdSet :
        /\ Goto(p, "get_repo", id, NoRequest, <<>>)
        /\ last' = About(Step(p, "GetCourseByID", "cache", id), CourseKey(id))
    /\ UNCHANGED <<enrollments, enrolled, store, nextId, cache, now, backendUp,
                   redisService, prov>>

\* A variant that returns the error of GetCourse to the caller.
GetCourseByID_Cache_ReturnsCacheError(p, rs) ==
    /\ Start(p)
    /\ \E id \in IdSet :
        LET r == IF rs THEN GetCourse(cache, id, now, backendUp)
                 ELSE [course |-> Nil, err |-> NoErr]
        IN IF r.err # NoErr
           THEN /\ Return(p)
                /\ last' = About(Failed(p, "GetCourseByID", "cache", id, r.err, NoErr),
                                 CourseKey(id))
           ELSE IF rs /\ CacheHit(r.course, r.err)
           THEN /\ Return(p)
                /\ last' = About(Event(p, "GetCourseByID", "cache", id, TRUE, NoErr,
                                       r.course, TRUE, NoErr, AsOf(CourseKey(id)),
                                       prov[CourseKey(id)].put - prov[CourseKey(id)].read),
                                 CourseKey(id))
           ELSE /\ Goto(p, "get_repo", id, NoRequest, <<>>)
                /\ last' = About(Step(p, "GetCourseByID", "cache", id), CourseKey(id))
    /\ UNCHANGED <<enrollments, enrolled, store, nextId, cache, now, backendUp, redisService, prov>>

\* GetCourse when there is a Redis handle: a hit returns the cached course.
GetCourseByID_Cache(p, rs) ==
    /\ Start(p)
    /\ \E id \in IdSet :
        LET r == IF rs THEN GetCourse(cache, id, now, backendUp)
                 ELSE [course |-> Nil, err |-> NoErr]
        IN IF rs /\ CacheHit(r.course, r.err)
           THEN /\ Return(p)
                /\ last' = About(Event(p, "GetCourseByID", "cache", id, TRUE, NoErr,
                                 r.course, TRUE, NoErr, AsOf(CourseKey(id)),
                                 prov[CourseKey(id)].put - prov[CourseKey(id)].read), CourseKey(id))
           ELSE /\ Goto(p, "get_repo", id, NoRequest, <<>>)
                /\ last' = About(Step(p, "GetCourseByID", "cache", id), CourseKey(id))
    /\ UNCHANGED <<enrollments, enrolled, store, nextId, cache, now, backendUp, redisService, prov>>

\* courseRepo.GetByID; record-not-found becomes "course not found".
GetCourseByID_Repo(p, rs) ==
    /\ pc[p] = "get_repo"
    /\ \E dbOK \in BOOLEAN :
        LET r == IF dbOK THEN RepoGetByID(store, lid[p])
                 ELSE [course |-> Nil, err |-> ErrDB]
        IN IF r.err = NoErr
           THEN /\ Goto(p, "get_set", lid[p], NoRequest, r.course)
                /\ prov' = [prov EXCEPT ![p] = [cur |-> now, read |-> now, put |-> 0]]
                /\ last' = Step(p, "GetCourseByID", "repo", lid[p])
           ELSE /\ Return(p)
                /\ prov' = prov
                /\ last' = Failed(p, "GetCourseByID", "repo", lid[p],
                                  NotFoundOr(r.err), r.err)
    /\ UNCHANGED <<enrollments, enrolled,
                 store, nextId, cache, now, backendUp, redisService, started>>

\* A variant that puts whenever the backend answers, handle or not.
GetCourseByID_Set_WithoutHandle(p, rs) ==
    /\ pc[p] = "get_set"
    /\ LET r == SetCourse(cache, ToResponse(lrows[p][1]), now, backendUp)
       IN /\ cache' = r.cache
          /\ prov' = IF r.err = NoErr
                     THEN [prov EXCEPT ![p] = NoProv,
                                       ![CourseKey(lid[p])] = [cur |-> AsOf(p),
                                                               read |-> prov[p].read,
                                                               put |-> now]]
                     ELSE [prov EXCEPT ![p] = NoProv]
    /\ last' = About(Event(p, "GetCourseByID", "set", lid[p], TRUE, NoErr,
                           ToResponses(lrows[p]), FALSE, NoErr, AsOf(p),
                           now - prov[p].read),
                     CourseKey(lid[p]))
    /\ Return(p)
    /\ UNCHANGED <<enrollments, enrolled, store, nextId, now, backendUp, redisService,
                   started>>

\* SetCourse when there is a Redis handle; its error is dropped.
GetCourseByID_Set(p, rs) ==
    /\ pc[p] = "get_set"
    /\ LET r == IF rs THEN SetCourse(cache, ToResponse(lrows[p][1]), now, backendUp)
                ELSE [cache |-> cache, err |-> NoErr]
       IN /\ cache' = r.cache
          /\ prov' = IF rs /\ r.err = NoErr
                     THEN [prov EXCEPT ![p] = NoProv,
                                       ![CourseKey(lid[p])] = [cur |-> AsOf(p),
                                                               read |-> prov[p].read,
                                                               put |-> now]]
                     ELSE [prov EXCEPT ![p] = NoProv]
    /\ last' = About(Event(p, "GetCourseByID", "set", lid[p], TRUE, NoErr,
                           ToResponses(lrows[p]), FALSE, NoErr, AsOf(p),
                           now - prov[p].read),
                     CourseKey(lid[p]))
    /\ Return(p)
    /\ UNCHANGED <<enrollments, enrolled, store, nextId, now, backendUp, redisService, started>>

\* --- UpdateCourse
\* courseRepo.GetByID; record-not-found becomes "course not found".
UpdateCourse_Get(p, rs) ==
    /\ Start(p)
    /\ \E id \in IdSet, req \in Requests, dbOK \in BOOLEAN :
        LET r == IF dbOK THEN RepoGetByID(store, id)
                 ELSE [course |-> Nil, err |-> ErrDB]
        IN IF r.err = NoErr
           THEN /\ Goto(p, "update_save", id, req, r.course)
                /\ last' = Step(p, "UpdateCourse", "get", id)
           ELSE /\ Return(p)
                /\ last' = Failed(p, "UpdateCourse", "get", id, NotFoundOr(r.err), r.err)
    /\ UNCHANGED <<enrollments, enrolled, store, nextId, cache, now, backendUp, redisService, prov>>

\* The four assignments, then courseRepo.Update; the response is returned.
UpdateCourse_Save(p, rs) ==
    /\ pc[p] = "update_save"
    /\ \E dbOK \in BOOLEAN :
        LET course == ApplyRequest(lrows[p][1], lreq[p])
        IN IF dbOK
           THEN /\ store' = RepoUpdate(store, course)
                /\ prov' = StoreChanged(prov, store, RepoUpdate(store, course))
                /\ last' = Event(p, "UpdateCourse", "save", lid[p], TRUE, NoErr,
                                 <<ToResponse(course)>>, FALSE, NoErr, now, 0)
           ELSE /\ UNCHANGED <<store, prov>>
                /\ last' = Failed(p, "UpdateCourse", "save", lid[p], ErrDB, ErrDB)
    /\ Return(p)
    /\ UNCHANGED <<enrollments, enrolled, nextId, cache, now, backendUp, redisService, started>>

\* --- DeleteCourse
\* courseRepo.GetByID; record-not-found becomes "course not found".
DeleteCourse_Get(p, rs) ==
    /\ Start(p)
    /\ \E id \in IdSet, dbOK \in BOOLEAN :
        LET r == IF dbOK THEN RepoGetByID(store, id)
                 ELSE [course |-> Nil, err |-> ErrDB]
        IN IF r.err = NoErr
           THEN /\ Goto(p, "delete_delete", id, NoRequest, <<>>)
                /\ last' = Step(p, "DeleteCourse", "get", id)
           ELSE /\ Return(p)
                /\ last' = Failed(p, "DeleteCourse", "get", id, NotFoundOr(r.err), r.err)
    /\ UNCHANGED <<enrollments, enrolled, store, nextId, cache, now, backendUp, redisService, prov>>

\* courseRepo.Delete; its error is returned as it is.
DeleteCourse_Delete(p, rs) ==
    /\ pc[p] = "delete_delete"
    /\ \E dbOK \in BOOLEAN :
        LET r == IF dbOK THEN RepoDelete(store, lid[p])
                 ELSE [store |-> store, err |-> ErrDB]
        IN /\ store' = r.store
           /\ prov' = StoreChanged(prov, store, r.store)
           /\ enrollments' = IF r.err = NoErr THEN OnDeleteCascade(enrollments, lid[p])
                              ELSE enrollments
           /\ last' = Event(p, "DeleteCourse", "delete", lid[p], TRUE, r.err,
                            <<>>, FALSE, r.err, now, 0)
    /\ Return(p)
    /\ UNCHANGED <<enrolled, nextId, cache, now, backendUp, redisService, started>>

\* ------------------------------------------------------------- enrollmentService
\* A student email is written as its parts around the @ sign.
Emails == {<<"ann", "example.com">>, <<"bob", "example.com">>, <<"not-an-email">>}

\* Enrollment.BeforeCreate: a fresh identifier.
EnrollmentId(n) == "e" \o ToString(n)

\* The event of a step of an operation on the pair (email, id); later says
\* that EnrollStudent had succeeded for the pair when the operation started.
EnrollmentEvent(e, email, later) == e @@ [email |-> email, later |-> later]

\* --- EnrollStudent
\* mail.ParseAddress, then courseRepo.GetByID.
EnrollStudent_GetCourse(p) ==
    /\ Start(p)
    /\ \E email \in Emails, id \in IdSet, dbOK \in BOOLEAN :
        LET later == <<email, id>> \in enrolled
            r == IF dbOK THEN RepoGetByID(store, id)
                 ELSE [course |-> Nil, err |-> ErrDB]
        IN IF ParseAddress(email) # NoErr
           THEN /\ Return(p)
                /\ last' = EnrollmentEvent(
                       Failed(p, "EnrollStudent", "parse", id, ErrInvalidEmail, NoErr),
                       email, later)
           ELSE IF r.err = NoErr
           THEN /\ Goto(p, "enroll_exists", id, [email |-> email, later |-> later], <<>>)
                /\ last' = EnrollmentEvent(Step(p, "EnrollStudent", "course", id),
                                           email, later)
           ELSE /\ Return(p)
                /\ last' = EnrollmentEvent(
                       Failed(p, "EnrollStudent", "course", id, NotFoundOr(r.err), r.err),
                       email, later)
    /\ UNCHANGED <<enrollments, enrolled, store, nextId, cache, now, backendUp,
                   redisService, prov>>

\* enrollmentRepo.Create, first half: the existence check.
EnrollStudent_Exists(p) ==
    /\ pc[p] = "enroll_exists"
    /\ \E dbOK \in BOOLEAN :
        IF ~dbOK
        THEN /\ Return(p)
             /\ last' = EnrollmentEvent(
                    Failed(p, "EnrollStudent", "exists", lid[p], ErrDB, ErrDB),
                    lreq[p].email, lreq[p].later)
        ELSE IF ExistsByStudentAndCourse(enrollments, lreq[p].email, lid[p])
        THEN /\ Return(p)
             /\ last' = EnrollmentEvent(
                    Failed(p, "EnrollStudent", "exists", lid[p], ErrAlreadyEnrolled, NoErr),
                    lreq[p].email, lreq[p].later)
        ELSE /\ Goto(p, "enroll_insert", lid[p], lreq[p], <<>>)
             /\ last' = EnrollmentEvent(Step(p, "EnrollStudent", "exists", lid[p]),
                                        lreq[p].email, lreq[p].later)
    /\ UNCHANGED <<enrollments, enrolled, store, nextId, cache, now, backendUp,
                   redisService, started, prov>>

\* enrollmentRepo.Create, second half: db.Create; its error is returned as it is.
EnrollStudent_Insert(p) ==
    /\ pc[p] = "enroll_insert"
    /\ \E dbOK \in BOOLEAN :
        LET row == [id |-> EnrollmentId(nextId + 1), student_email |-> lreq[p].email,
                    course_id |-> lid[p]]
            r == IF dbOK THEN InsertEnrollment(enrollments, store, row)
                 ELSE [enrollments |-> enrollments, err |-> ErrDB]
        IN /\ enrollments' = r.enrollments
           /\ nextId' = nextId + 1
           /\ IF r.err = NoErr
              THEN /\ Goto(p, "enroll_fetch", lid[p], lreq[p], <<>>)
                   /\ last' = EnrollmentEvent(Step(p, "EnrollStudent", "insert", lid[p]),
                                              lreq[p].email, lreq[p].later)
              ELSE /\ Return(p)
                   /\ last' = EnrollmentEvent(
                          Failed(p, "EnrollStudent", "insert", lid[p], r.err, r.err),
                          lreq[p].email, lreq[p].later)
    /\ UNCHANGED <<enrolled, store, cache, now, backendUp, redisService, started, prov>>

\* enrollmentRepo.GetByStudentAndCourse of the enrollment just created.
EnrollStudent_Fetch(p) ==
    /\ pc[p] = "enroll_fetch"
    /\ \E dbOK \in BOOLEAN :
        LET r == IF dbOK THEN GetByStudentAndCourse(enrollments, lreq[p].email, lid[p])
                 ELSE [enrollment |-> Nil, err |-> ErrDB]
        IN /\ enrolled' = IF r.err = NoErr THEN enrolled \cup {<<lreq[p].email, lid[p]>>}
                           ELSE enrolled
           /\ last' = EnrollmentEvent(
                  Event(p, "EnrollStudent", "fetch", lid[p], TRUE, r.err,
                        IF r.err = NoErr THEN r.enrollment ELSE <<>>, FALSE, r.err, now, 0),
                  lreq[p].email, lreq[p].later)
    /\ Return(p)
    /\ UNCHANGED <<enrollments, store, nextId, cache, now, backendUp, redisService,
                   started, prov>>

\* --- UnenrollStudent
\* mail.ParseAddress, then enrollmentRepo.GetByStudentAndCourse.
UnenrollStudent_Get(p) ==
    /\ Start(p)
    /\ \E email \in Emails, id \in IdSet, dbOK \in BOOLEAN :
        LET later == <<email, id>> \in enrolled
            r == IF dbOK THEN GetByStudentAndCourse(enrollments, email, id)
                 ELSE [enrollment |-> Nil, err |-> ErrDB]
        IN IF ParseAddress(email) # NoErr
           THEN /\ Return(p)
                /\ last' = EnrollmentEvent(
                       Failed(p, "UnenrollStudent", "parse", id, ErrInvalidEmail, NoErr),
                       email, later)
           ELSE IF r.err = NoErr
           THEN /\ Goto(p, "unenroll_delete", id, [email |-> email, later |-> later],
                        r.enrollment)
                /\ last' = EnrollmentEvent(Step(p, "UnenrollStudent", "get", id),
                                           email, later)
           ELSE /\ Return(p)
                /\ last' = EnrollmentEvent(
                       Failed(p, "UnenrollStudent", "get", id,
                              IF r.err = ErrRecordNotFound THEN ErrEnrollmentNotFound
                              ELSE r.err,
                              r.err),
                       email, later)
    /\ UNCHANGED <<enrollments, enrolled, store, nextId, cache, now, backendUp,
                   redisService, prov>>

\* enrollmentRepo.Delete(enrollment.ID); its error is returned as it is.
UnenrollStudent_Delete(p) ==
    /\ pc[p] = "unenroll_delete"
    /\ \E dbOK \in BOOLEAN :
        LET r == IF dbOK THEN EnrollmentDelete(enrollments, lrows[p][1].id)
                 ELSE [enrollments |-> enrollments, err |-> ErrDB]
        IN /\ enrollments' = r.enrollments
           /\ last' = EnrollmentEvent(
                  Event(p, "UnenrollStudent", "delete", lid[p], TRUE, r.err,
                        <<>>, FALSE, r.err, now, 0),
                  lreq[p].email, lreq[p].later)
    /\ Return(p)
    /\ UNCHANGED <<enrolled, store, nextId, cache, now, backendUp, redisService,
                   started, prov>>

\* The enrollment service and the course service over one database; the
\* course service runs without a Redis handle.
InitEnroll ==
    /\ store = SeededStore
    /\ nextId = Seeded
    /\ cache = [k \in Keys |-> NoEntry]
    /\ now = 0
    /\ backendUp = FALSE
    /\ redisService = FALSE
    /\ pc = [p \in Procs |-> "idle"]
    /\ lid = [p \in Procs |-> ""]
    /\ lreq = [p \in Procs |-> NoRequest]
    /\ lrows = [p \in Procs |-> <<>>]
    /\ started = 0
    /\ prov = [x \in Keys \cup Procs |-> NoProv]
    /\ enrollments = {}
    /\ enrolled = {}
    /\ request = [p \in Procs |-> NotAdmitted]
    /\ last = EnvEvent("start")

\* ------------------------------------------------------------- pagination
\* The Page and Limit a caller passes, and the counts the repository returns.
PageArgs == -1..MaxPage

LimitArgs == {-1, 0, 1, 2, 3, DefaultPageSize, MaxPageSize, MaxPageSize + 1}

TotalCounts == {0, 1, 2, 3, DefaultPageSize, DefaultPageSize + 1, MaxPageSize,
                MaxPageSize + 1, 2 * MaxPageSize + 1}

\* The parameters after the defaults have been set.
SetDefaults(params) ==
    LET page == IF params.Page <= 0 THEN 1 ELSE params.Page
        limit == IF params.Limit <= 0 THEN DefaultPageSize ELSE params.Limit
    IN [Page |-> page, Limit |-> IF limit > MaxPageSize THEN MaxPageSize ELSE limit]

\* A variant that rounds the number of pages down.
PaginationMeta_RoundsDown(params, totalCount) ==
    LET totalPages == totalCount \div params.Limit
    IN [CurrentPage |-> params.Page,
        TotalPages |-> totalPages,
        TotalCount |-> totalCount,
        HasNext |-> params.Page < totalPages,
        HasPrev |-> params.Page > 1,
        Limit |-> params.Limit]

\* The pagination metadata for the parameters and the repository's count.
PaginationMeta(params, totalCount) ==
    LET totalPages == (totalCount + params.Limit - 1) \div params.Limit
    IN [CurrentPage |-> params.Page,
        TotalPages |-> totalPages,
        TotalCount |-> totalCount,
        HasNext |-> params.Page < totalPages,
        HasPrev |-> params.Page > 1,
        Limit |-> params.Limit]

\* courseService.GetCoursesWithPagination, given what courseRepo.GetWithPagination
\* returns for the parameters it is passed.
GetCoursesWithPagination(p) ==
    /\ pc[p] = "idle"
    /\ \E page \in PageArgs, limit \in LimitArgs, totalCount \in TotalCounts,
          dbOK \in BOOLEAN :
        LET params == SetDefaults([Page |-> page, Limit |-> limit])
        IN last' = Event(p, "GetCoursesWithPagination", "repo", "", TRUE,
                         IF dbOK THEN NoErr ELSE ErrDB,
                         IF dbOK THEN <<PaginationMeta(params, totalCount)>> ELSE <<>>,
                         FALSE, IF dbOK THEN NoErr ELSE ErrDB, now, 0)
                   @@ [args |-> [Page |-> page, Limit |-> limit],
                       totalCount |-> totalCount]
    /\ UNCHANGED <<enrollments, enrolled, request, store, nextId, cache, now, backendUp,
                   redisService, pc, lid, lreq, lrows, started, prov>>

\* ------------------------------------------------------------- middleware
RoleAdmin == "admin"
RoleUser == "user"

\* A JWT: the number of its dot-separated parts, the algorithm of its header,
\* whether its signature verifies under JWTSecret, and the claims exp and role.
Token(parts, alg, sig, exp, role) ==
    [parts |-> parts, alg |-> alg, sig |-> sig, exp |-> exp, role |-> role]

\* GenerateToken at time t for a user of the given role.
GenerateToken(role, t) == Token(3, "HS256", "valid", t + JWTTokenExpiry, role)

Tokens ==
    { GenerateToken(RoleAdmin, 0),
      GenerateToken(RoleAdmin, 0 - JWTTokenExpiry),
      GenerateToken(RoleUser, 0),
      Token(3, "HS256", "forged", JWTTokenExpiry, RoleAdmin),
      Token(3, "none", "valid", JWTTokenExpiry, RoleAdmin),
      Token(1, "", "", 0, "") }

\* The Authorization header as the sequence of its pieces; <<>> is the empty
\* string, which is also what a request without the header gives.
Headers ==
    {<<>>, <<"Bearer", " ">>, <<"Basic", " ", GenerateToken(RoleAdmin, 0)>>}
    \cup {<<"Bearer", " ", tok>> : tok \in Tokens}

\* strings.HasPrefix and strings.TrimPrefix.
HasPrefix(str, prefix) ==
    Len(str) >= Len(prefix) /\ SubSeq(str, 1, Len(prefix)) = prefix

TrimPrefix(str, prefix) ==
    IF HasPrefix(str, prefix) THEN SubSeq(str, Len(prefix) + 1, Len(str)) ELSE str

\* auth.ValidateToken at time t: [claims, ok].
ValidateToken(tokenString, t) ==
    LET tok == tokenString[1]
    IN IF tok.parts # 3 THEN [claims |-> Nil, ok |-> FALSE]
       ELSE IF tok.alg # "HS256" THEN [claims |-> Nil, ok |-> FALSE]
       ELSE IF tok.sig # "valid" THEN [claims |-> Nil, ok |-> FALSE]
       ELSE IF ~(t < tok.exp) THEN [claims |-> Nil, ok |-> FALSE]
       ELSE [claims |-> <<tok>>, ok |-> TRUE]

StatusUnauthorized == 401
StatusForbidden == 403

\* The middleware lets the request through to the handler.
CallNext == 0

\* A variant that admits every authenticated user.
AdminAuthMiddleware_AnyRole(authHeader, t) ==
    IF authHeader = <<>> THEN StatusUnauthorized
    ELSE IF ~HasPrefix(authHeader, <<"Bearer", " ">>) THEN StatusUnauthorized
    ELSE IF TrimPrefix(authHeader, <<"Bearer", " ">>) = <<>> THEN StatusUnauthorized
    ELSE IF ~ValidateToken(TrimPrefix(authHeader, <<"Bearer", " ">>), t).ok
    THEN StatusUnauthorized
    ELSE CallNext

\* AdminAuthMiddleware at time t: the status it answers when it aborts the
\* request, or CallNext.
AdminAuthMiddleware(authHeader, t) ==
    IF authHeader = <<>> THEN StatusUnauthorized
    ELSE IF ~HasPrefix(authHeader, <<"Bearer", " ">>) THEN StatusUnauthorized
    ELSE IF TrimPrefix(authHeader, <<"Bearer", " ">>) = <<>> THEN StatusUnauthorized
    ELSE IF ~ValidateToken(TrimPrefix(authHeader, <<"Bearer", " ">>), t).ok
    THEN StatusUnauthorized
    ELSE IF ValidateToken(TrimPrefix(authHeader, <<"Bearer", " ">>), t).claims[1].role
              # RoleAdmin
    THEN StatusForbidden
    ELSE CallNext

\* The routes of the adminRoutes group whose handlers are modelled.
AdminRoutes == {"CreateCourse", "UpdateCourse", "DeleteCourse", "EnrollStudent"}

\* A request for an admin route arrives at an idle handler chain and goes
\* through the middleware: it is answered there, which ends the operation, or
\* it goes on to the handler, which counts the operation when it starts.
AdminAuthMiddleware_Serve(p) ==
    /\ pc[p] = "idle"
    /\ request[p] = NotAdmitted
    /\ started < MaxOps
    /\ \E route \in AdminRoutes, authHeader \in Headers :
        LET status == AdminAuthMiddleware(authHeader, now)
        IN /\ request' = IF status = CallNext
                          THEN [request EXCEPT ![p] = [route |-> route,
                                                       header |-> authHeader,
                                                       at |-> now]]
                          ELSE request
           /\ started' = IF status = CallNext THEN started ELSE started + 1
           /\ last' = Event(p, "AdminAuthMiddleware", route, "", status # CallNext,
                            NoErr, <<>>, FALSE, NoErr, now, 0)
                      @@ [header |-> authHeader, status |-> status]
    /\ UNCHANGED <<enrollments, enrolled, store, nextId, cache, now, backendUp,
                   redisService, pc, lid, lreq, lrows, prov>>

\* The middleware has called Next for a request of p for the route.
Admitted(p, route) == request[p].route = route

\* The handlers of the admin routes, reached through the middleware.
Admin_CreateCourse(p) == Admitted(p, "CreateCourse") /\ CreateCourse_Create(p, redisService)

Admin_UpdateCourse(p) == Admitted(p, "UpdateCourse") /\ UpdateCourse_Get(p, redisService)

Admin_DeleteCourse(p) == Admitted(p, "DeleteCourse") /\ DeleteCourse_Get(p, redisService)

Admin_EnrollStudent(p) == Admitted(p, "EnrollStudent") /\ EnrollStudent_GetCourse(p)

\* ------------------------------------------------------------- environment
\* Time passes; the backing store drops the entries whose TTL has run out.
Tick ==
    /\ now + TickMinutes <= MaxTime
    /\ now' = now + TickMinutes
    /\ cache' = [k \in DOMAIN cache |->
                   IF cache[k] # NoEntry /\ Expired(cache, k, now + TickMinutes)
                   THEN NoEntry ELSE cache[k]]
    /\ prov' = [x \in DOMAIN prov |->
                   IF x \in Keys /\ cache[x] # NoEntry /\ Expired(cache, x, now + TickMinutes)
                   THEN NoProv ELSE prov[x]]
    /\ last' = EnvEvent("tick")
    /\ UNCHANGED <<request, enrollments, enrolled,
                 store, nextId, backendUp, redisService, pc, lid, lreq, lrows, started>>

\* The backing store becomes unreachable: its calls fail or time out.
BackendDown ==
    /\ backendUp
    /\ backendUp' = FALSE
    /\ last' = EnvEvent("down")
    /\ UNCHANGED <<request, enrollments, enrolled,
                 store, nextId, cache, now, redisService, pc, lid, lreq, lrows,
                   started, prov>>

\* The backing store becomes reachable again.
BackendUp ==
    /\ ~backendUp
    /\ backendUp' = TRUE
    /\ last' = EnvEvent("up")
    /\ UNCHANGED <<request, enrollments, enrolled,
                 store, nextId, cache, now, redisService, pc, lid, lreq, lrows,
                   started, prov>>

\* A key holds bytes that do not decode, such as those a deployment with
\* another schema wrote; they expire like any entry.
Corrupt ==
    /\ \E k \in Keys :
        /\ cache[k] # NoEntry
        /\ cache[k].data # Garbage
        /\ cache' = [cache EXCEPT ![k].data = Garbage]
        /\ prov' = [prov EXCEPT ![k] = NoProv]
    /\ last' = EnvEvent("corrupt")
    /\ UNCHANGED <<request, enrollments, enrolled,
                 store, nextId, now, backendUp, redisService, pc, lid, lreq, lrows,
                   started>>

\* ------------------------------------------------------------- cache layer alone
\* The methods of RedisService called directly, with any argument.
CourseValues ==
    {ToResponse(NewCourse(req, id, 1)) : req \in Requests, id \in IdSet}

CourseLists ==
    {<<>>} \cup {<<v>> : v \in CourseValues}
           \cup {<<vw[1], vw[2]>> :
                    vw \in {x \in CourseValues \X CourseValues : x[1].id # x[2].id}}

\* The CourseResponse values that differ from v in the image, which is
\* absent, present or present but empty, and in the creation time.
CodecValues(v) ==
    {[v EXCEPT !.image_url = img, !.created_at = n] :
        img \in {Nil, <<"">>, <<"https://img/rust.jpg">>},
        n \in 0..(MaxCourses + 1)}

\* What a call of the layer returned.
Called(method, id, err, val, found) ==
    Event("", method, "layer", id, TRUE, err, val, found, NoErr, 0, 0)

Layer_SetCourse ==
    /\ \E v \in CourseValues :
        /\ cache' = SetCourse(cache, v, now, backendUp).cache
        /\ last' = About(Called("SetCourse", v.id, SetCourse(cache, v, now, backendUp).err,
                          <<v>>, FALSE), CourseKey(v.id))
    /\ UNCHANGED <<request, enrollments, enrolled,
                 store, nextId, now, backendUp, redisService, pc, lid, lreq, lrows,
                   started, prov>>

Layer_GetCourse ==
    /\ \E id \in IdSet :
        LET r == GetCourse(cache, id, now, backendUp)
        IN last' = About(Called("GetCourse", id, r.err, r.course, r.course # Nil), CourseKey(id))
    /\ UNCHANGED <<request, enrollments, enrolled,
                 store, nextId, cache, now, backendUp, redisService, pc, lid, lreq,
                   lrows, started, prov>>

Layer_DeleteCourse ==
    /\ \E id \in IdSet :
        /\ cache' = DeleteCourse(cache, id, backendUp).cache
        /\ last' = About(Called("DeleteCourse", id, DeleteCourse(cache, id, backendUp).err,
                          <<>>, FALSE), CourseKey(id))
    /\ UNCHANGED <<request, enrollments, enrolled,
                 store, nextId, now, backendUp, redisService, pc, lid, lreq, lrows,
                   started, prov>>

Layer_SetCourses ==
    /\ \E l \in CourseLists :
        /\ cache' = SetCourses(cache, l, now, backendUp).cache
        /\ last' = About(Called("SetCourses", "", SetCourses(cache, l, now, backendUp).err,
                          l, FALSE), CoursesKey)
    /\ UNCHANGED <<request, enrollments, enrolled,
                 store, nextId, now, backendUp, redisService, pc, lid, lreq, lrows,
                   started, prov>>

Layer_GetCourses ==
    /\ LET r == GetCourses(cache, now, backendUp)
       IN last' = About(Called("GetCourses", "", r.err,
                                IF r.courses = Nil THEN <<>> ELSE r.courses[1],
                                r.courses # Nil),
                         CoursesKey)
    /\ UNCHANGED <<request, enrollments, enrolled,
                 store, nextId, cache, now, backendUp, redisService, pc, lid, lreq,
                   lrows, started, prov>>

Layer_InvalidateCoursesCache ==
    /\ cache' = InvalidateCoursesCache(cache, backendUp).cache
    /\ last' = About(Called("InvalidateCoursesCache", "",
                      InvalidateCoursesCache(cache, backendUp).err, <<>>, FALSE), CoursesKey)
    /\ UNCHANGED <<request, enrollments, enrolled,
                 store, nextId, now, backendUp, redisService, pc, lid, lreq, lrows,
                   started, prov>>

\* NewRedisService: a handle on a backing store that may or may not answer.
InitLayer ==
    /\ store = SeededStore
    /\ nextId = Seeded
    /\ cache = [k \in Keys |-> NoEntry]
    /\ now = 0
    /\ backendUp \in BOOLEAN
    /\ redisService = TRUE
    /\ pc = [p \in Procs |-> "idle"]
    /\ lid = [p \in Procs |-> ""]
    /\ lreq = [p \in Procs |-> NoRequest]
    /\ lrows = [p \in Procs |-> <<>>]
    /\ started = 0
    /\ prov = [x \in Keys \cup Procs |-> NoProv]
    /\ enrollments = {}
    /\ enrolled = {}
    /\ request = [p \in Procs |-> NotAdmitted]
    /\ last = EnvEvent("start")

\* ------------------------------------------------------------- all keys of the layer
\* The session, rate-limit and generic methods next to the course methods,
\* called with any argument.
SessionIDs == {"s1"}

UserIDs == {"alice"}

GenericKeys == {"stats"}

StoreKeys ==
    Keys \cup {CourseKey("")} \cup {SessionKey(x) : x \in SessionIDs}
         \cup {RateLimitKey(u) : u \in UserIDs} \cup GenericKeys

\* Identifiers a caller may pass where a course, session or user id is
\* expected, those that resemble parts of other keys among them.
KeyArguments ==
    IdSet \cup SessionIDs \cup UserIDs \cup {"", "all", "s:all", "courses:all", ":all"}

\* The keys on which two states of the backing store differ.
Touched(c, d) == {k \in DOMAIN c : c[k] # d[k]}

\* The durations a caller passes, in minutes.
Durations == {0, RateLimitWindow, CacheTTL}

Limits == 1..MaxLimit

\* SetCourse and SetCourses of what the seeded table holds.
Store_SetCourse ==
    /\ \E i \in 1..Seeded :
        LET v == ToResponse(SeededStore[Id(i)])
        IN /\ cache' = SetCourse(cache, v, now, backendUp).cache
           /\ last' = About(Called("SetCourse", v.id, SetCourse(cache, v, now, backendUp).err,
                                   <<v>>, FALSE),
                            CourseKey(v.id))
    /\ UNCHANGED <<request, enrollments, enrolled,
                 store, nextId, now, backendUp, redisService, pc, lid, lreq, lrows,
                   started, prov>>

Store_SetCourses ==
    /\ cache' = SetCourses(cache, ViewList(SeededStore), now, backendUp).cache
    /\ last' = About(Called("SetCourses", "",
                            SetCourses(cache, ViewList(SeededStore), now, backendUp).err,
                            ViewList(SeededStore), FALSE),
                     CoursesKey)
    /\ UNCHANGED <<request, enrollments, enrolled,
                 store, nextId, now, backendUp, redisService, pc, lid, lreq, lrows,
                   started, prov>>

\* GetCourse of a seeded course's id and of the empty string.
Store_GetCourse ==
    /\ \E id \in {Id(i) : i \in 1..Seeded} \cup {""} :
        LET r == GetCourse(cache, id, now, backendUp)
        IN last' = About(Called("GetCourse", id, r.err, r.course, r.course # Nil),
                         CourseKey(id))
    /\ UNCHANGED <<request, enrollments, enrolled,
                 store, nextId, cache, now, backendUp, redisService, pc, lid, lreq,
                   lrows, started, prov>>

Store_SetSession ==
    /\ \E x \in SessionIDs, u \in UserIDs, d \in Durations :
        /\ cache' = SetSession(cache, x, u, d, now, backendUp).cache
        /\ last' = About(Called("SetSession", x,
                                SetSession(cache, x, u, d, now, backendUp).err,
                                <<u>>, FALSE),
                         SessionKey(x))
    /\ UNCHANGED <<request, enrollments, enrolled,
                 store, nextId, now, backendUp, redisService, pc, lid, lreq, lrows,
                   started, prov>>

Store_GetSession ==
    /\ \E x \in SessionIDs :
        LET r == GetSession(cache, x, now, backendUp)
        IN last' = About(Called("GetSession", x, r.err, <<r.userID>>, r.userID # ""),
                         SessionKey(x))
    /\ UNCHANGED <<request, enrollments, enrolled,
                 store, nextId, cache, now, backendUp, redisService, pc, lid, lreq,
                   lrows, started, prov>>

Store_DeleteSession ==
    /\ \E x \in SessionIDs :
        /\ cache' = DeleteSession(cache, x, backendUp).cache
        /\ last' = About(Called("DeleteSession", x, DeleteSession(cache, x, backendUp).err,
                                <<>>, FALSE),
                         SessionKey(x))
    /\ UNCHANGED <<request, enrollments, enrolled,
                 store, nextId, now, backendUp, redisService, pc, lid, lreq, lrows,
                   started, prov>>

Store_CheckRateLimit ==
    /\ \E u \in UserIDs, limit \in Limits, window \in Durations :
        LET r == CheckRateLimit(cache, u, limit, window, now, backendUp)
        IN /\ cache' = r.cache
           /\ last' = About(Called("CheckRateLimit", u, r.err, <<r.ok>>, FALSE),
                            RateLimitKey(u))
    /\ UNCHANGED <<request, enrollments, enrolled,
                 store, nextId, now, backendUp, redisService, pc, lid, lreq, lrows,
                   started, prov>>

Store_Set ==
    /\ \E k \in GenericKeys, ttl \in Durations :
        /\ cache' = Set(cache, k, "v", ttl, now, backendUp).cache
        /\ last' = About(Called("Set", k, Set(cache, k, "v", ttl, now, backendUp).err,
                                <<"v">>, FALSE),
                         k)
    /\ UNCHANGED <<request, enrollments, enrolled,
                 store, nextId, now, backendUp, redisService, pc, lid, lreq, lrows,
                   started, prov>>

\* CheckRateLimit called by concurrent callers: the read of the count, and
\* then, when the count is below the limit, the pipeline of INCR and EXPIRE.
CheckRateLimit_Get(p) ==
    /\ Start(p)
    /\ \E u \in UserIDs, limit \in Limits :
        LET got == RedisGet(cache, RateLimitKey(u), now)
            count == IF got = Nil THEN 0 ELSE got[1].n
            args == [userID |-> u, limit |-> limit, window |-> RateLimitWindow]
        IN IF ~backendUp
           THEN /\ Return(p)
                /\ last' = Called("CheckRateLimit", u, ErrRedis, <<FALSE>>, FALSE)
                            @@ [caller |-> p, args |-> args]
           ELSE IF count >= limit
           THEN /\ Return(p)
                /\ last' = Called("CheckRateLimit", u, NoErr, <<FALSE>>, FALSE)
                            @@ [caller |-> p, args |-> args]
           ELSE /\ Goto(p, "ratelimit_incr", u, args, <<>>)
                /\ last' = Step(p, "CheckRateLimit", "get", u)
                            @@ [caller |-> p, args |-> args]
    /\ UNCHANGED <<enrollments, enrolled, store, nextId, cache, now, backendUp,
                   redisService, prov>>

CheckRateLimit_Incr(p) ==
    /\ pc[p] = "ratelimit_incr"
    /\ cache' = IF backendUp
                THEN RedisExpire(RedisIncr(cache, RateLimitKey(lid[p]), now),
                                 RateLimitKey(lid[p]), lreq[p].window, now)
                ELSE cache
    /\ last' = Called("CheckRateLimit", lid[p], IF backendUp THEN NoErr ELSE ErrRedis,
                      <<backendUp>>, FALSE)
                @@ [caller |-> p, args |-> lreq[p]]
    /\ Return(p)
    /\ UNCHANGED <<enrollments, enrolled, store, nextId, now, backendUp, redisService,
                   started, prov>>

\* NewRedisService: no key of the layer holds anything yet.
InitStore ==
    /\ store = SeededStore
    /\ nextId = Seeded
    /\ cache = [k \in StoreKeys |-> NoEntry]
    /\ now = 0
    /\ backendUp \in BOOLEAN
    /\ redisService = TRUE
    /\ pc = [p \in Procs |-> "idle"]
    /\ lid = [p \in Procs |-> ""]
    /\ lreq = [p \in Procs |-> NoRequest]
    /\ lrows = [p \in Procs |-> <<>>]
    /\ started = 0
    /\ prov = [x \in Keys \cup Procs |-> NoProv]
    /\ enrollments = {}
    /\ enrolled = {}
    /\ request = [p \in Procs |-> NotAdmitted]
    /\ last = EnvEvent("start")

\* ------------------------------------------------------------- specifications
\* The service as router.Setup builds it, under concurrent requests.
Next ==
    \/ \E p \in Procs :
        \/ CreateCourse_Create(p, redisService)
        \/ CreateCourse_Invalidate(p, redisService)
        \/ GetAllCourses_Cache(p, redisService)
        \/ GetAllCourses_Repo(p, redisService)
        \/ GetAllCourses_Set(p, redisService)
        \/ GetCourseByID_Cache(p, redisService)
        \/ GetCourseByID_Repo(p, redisService)
        \/ GetCourseByID_Set(p, redisService)
        \/ UpdateCourse_Get(p, redisService)
        \/ UpdateCourse_Save(p, redisService)
        \/ DeleteCourse_Get(p, redisService)
        \/ DeleteCourse_Delete(p, redisService)
    \/ Tick
    \/ BackendDown
    \/ BackendUp
    \/ Corrupt

Spec == Init /\ [][Next]_vars

\* The cache layer under direct calls.
NextLayer ==
    \/ Layer_SetCourse
    \/ Layer_GetCourse
    \/ Layer_DeleteCourse
    \/ Layer_SetCourses
    \/ Layer_GetCourses
    \/ Layer_InvalidateCoursesCache
    \/ Tick
    \/ BackendDown
    \/ BackendUp
    \/ Corrupt

SpecLayer == InitLayer /\ [][NextLayer]_vars

\* Every method of the layer that writes a key, called directly.
NextStore ==
    \/ Store_SetCourse
    \/ Store_SetCourses
    \/ Store_GetCourse
    \/ Store_SetSession
    \/ Store_GetSession
    \/ Store_DeleteSession
    \/ Store_CheckRateLimit
    \/ Store_Set
    \/ Tick
    \/ BackendDown
    \/ BackendUp

SpecStore == InitStore /\ [][NextStore]_vars

\* Two concurrent GetCourseByID calls for one id, both past their cache miss:
\* the state the service is in after two GetCourseByID_Cache steps on an empty
\* cache.
InitRace ==
    /\ store = SeededStore
    /\ nextId = Seeded
    /\ cache = [k \in Keys |-> NoEntry]
    /\ now = 0
    /\ backendUp \in BOOLEAN
    /\ redisService = TRUE
    /\ pc = [p \in Procs |-> "get_repo"]
    /\ \E id \in IdSet : lid = [p \in Procs |-> id]
    /\ lreq = [p \in Procs |-> NoRequest]
    /\ lrows = [p \in Procs |-> <<>>]
    /\ started = Cardinality(Procs)
    /\ prov = [x \in Keys \cup Procs |-> NoProv]
    /\ enrollments = {}
    /\ enrolled = {}
    /\ request = [p \in Procs |-> NotAdmitted]
    /\ \E p \in Procs : last = Step(p, "GetCourseByID", "cache", lid[p])

\* The remaining steps of the two calls, in any order, while time passes and
\* the backing store comes and goes.
NextRace ==
    \/ \E p \in Procs :
        \/ GetCourseByID_Repo(p, redisService)
        \/ GetCourseByID_Set(p, redisService)
    \/ Tick
    \/ BackendDown
    \/ BackendUp

SpecRace == InitRace /\ [][NextRace]_vars

\* --- enrollments and course deletions
NextEnroll ==
    \/ \E p \in Procs : EnrollStudent_GetCourse(p)
    \/ \E p \in Procs : EnrollStudent_Exists(p)
    \/ \E p \in Procs : EnrollStudent_Insert(p)
    \/ \E p \in Procs : EnrollStudent_Fetch(p)
    \/ \E p \in Procs : UnenrollStudent_Get(p)
    \/ \E p \in Procs : UnenrollStudent_Delete(p)
    \/ \E p \in Procs : DeleteCourse_Get(p, redisService)
    \/ \E p \in Procs : DeleteCourse_Delete(p, redisService)

SpecEnroll == InitEnroll /\ [][NextEnroll]_vars

\* --- the admin routes behind the middleware
NextAuth ==
    \/ \E p \in Procs : AdminAuthMiddleware_Serve(p)
    \/ \E p \in Procs : Admin_CreateCourse(p)
    \/ \E p \in Procs : CreateCourse_Invalidate(p, redisService)
    \/ \E p \in Procs : Admin_UpdateCourse(p)
    \/ \E p \in Procs : UpdateCourse_Save(p, redisService)
    \/ \E p \in Procs : Admin_DeleteCourse(p)
    \/ \E p \in Procs : DeleteCourse_Delete(p, redisService)
    \/ \E p \in Procs : Admin_EnrollStudent(p)
    \/ \E p \in Procs : EnrollStudent_Exists(p)
    \/ \E p \in Procs : EnrollStudent_Insert(p)
    \/ \E p \in Procs : EnrollStudent_Fetch(p)

SpecAuth == InitEnroll /\ [][NextAuth]_vars

\* --- the paginated listing
NextPage == \E p \in Procs : GetCoursesWithPagination(p)

SpecPage == InitEnroll /\ [][NextPage]_vars

\* --- concurrent callers of the rate limiter
NextLimit ==
    \/ \E p \in Procs : CheckRateLimit_Get(p)
    \/ \E p \in Procs : CheckRateLimit_Incr(p)
    \/ Tick
    \/ BackendDown
    \/ BackendUp

SpecLimit == InitStore /\ [][NextLimit]_vars

\* ------------------------------------------------------------- claims
\* The service has a Redis handle and the backing store answers.
Healthy == redisService /\ backendUp

\* The step just taken returned op to its caller without error.
Returned(op) == last.op = op /\ last.done /\ last.err = NoErr

\* C1. Read-your-writes on update: once UpdateCourse(id, req) has returned
\* success with a healthy cache backend, the entity key of id is invalidated,
\* so a GetCourseByID(id) that starts now misses the cache and reads from the
\* repository the course UpdateCourse returned.
C1_ReadYourWritesOnUpdate ==
    (Returned("UpdateCourse") /\ Healthy) =>
        /\ GetCourse(cache, last.id, now, TRUE).course = Nil
        /\ ViewCourse(store, last.id) = last.val

\* C2. Read-your-writes on delete: once DeleteCourse(id) has returned success
\* with a healthy cache backend, the entity key of id is invalidated, so a
\* GetCourseByID(id) that starts now misses the cache and finds no record.
C2_ReadYourWritesOnDelete ==
    (Returned("DeleteCourse") /\ Healthy) =>
        /\ GetCourse(cache, last.id, now, TRUE).course = Nil
        /\ NotFoundOr(RepoGetByID(store, last.id).err) = ErrCourseNotFound

\* C3. List invalidation on update and delete: after UpdateCourse or
\* DeleteCourse has returned success (with a healthy cache backend), the list
\* key has been deleted, so a GetAllCourses that starts now misses the cache.
C3_ListInvalidatedOnUpdateAndDelete ==
    ((Returned("UpdateCourse") \/ Returned("DeleteCourse")) /\ Healthy) =>
        GetCourses(cache, now, TRUE).courses = Nil

\* C4. List invalidation on create: when CreateCourse returns success with a
\* healthy cache backend, the list key has been deleted, whether or not the
\* list was cached, so a GetAllCourses that starts now misses the cache, and
\* the repository's list holds the created course for as long as its row is
\* in the table.
C4_ListInvalidatedOnCreate ==
    (Returned("CreateCourse") /\ Healthy) =>
        /\ GetCourses(cache, now, TRUE).courses = Nil
        /\ cache[CoursesKey] = NoEntry
        /\ ViewCourse(store, last.id) # Nil =>
              \E i \in 1..Len(ViewList(store)) :
                  <<ViewList(store)[i]>> = ViewCourse(store, last.id)

\* C4 witness: CreateCourse has returned with a healthy backend and the list
\* was cached when it invalidated; the created course is in the table.
C4_Witness ==
    /\ Returned("CreateCourse") /\ Healthy
    /\ last.pre = "valid"
    /\ ViewCourse(store, last.id) = last.val

\* C5. No cache failure becomes a request failure: CreateCourse,
\* GetAllCourses and GetCourseByID return an error only when their repository
\* call returned one, whatever the cache calls did.
C5_NoCacheFailureFailsARequest ==
    (last.done /\ last.op \in {"CreateCourse", "GetAllCourses", "GetCourseByID"}
        /\ last.err # NoErr) => last.repoErr # NoErr

\* C5 witness: GetCourseByID has returned a course although its key held bytes
\* that do not decode and the backing store had become unreachable by the
\* time of its put.
C5_Witness ==
    /\ last.done /\ last.op = "GetCourseByID" /\ last.step = "set"
    /\ last.err = NoErr /\ last.val # <<>>
    /\ redisService /\ ~backendUp
    /\ cache[CourseKey(last.id)].data = Garbage

\* The steps of an operation as taken by a service with (TRUE) and without
\* (FALSE) a Redis handle.
SameStep(p, a, b) ==
    /\ CreateCourse_Create(p, a) <=> CreateCourse_Create(p, b)
    /\ CreateCourse_Invalidate(p, a) <=> CreateCourse_Invalidate(p, b)
    /\ GetAllCourses_Cache(p, a) <=> GetAllCourses_Cache(p, b)
    /\ GetAllCourses_Repo(p, a) <=> GetAllCourses_Repo(p, b)
    /\ GetAllCourses_Set(p, a) <=> GetAllCourses_Set(p, b)
    /\ GetCourseByID_Cache(p, a) <=> GetCourseByID_Cache(p, b)
    /\ GetCourseByID_Repo(p, a) <=> GetCourseByID_Repo(p, b)
    /\ GetCourseByID_Set(p, a) <=> GetCourseByID_Set(p, b)
    /\ UpdateCourse_Get(p, a) <=> UpdateCourse_Get(p, b)
    /\ UpdateCourse_Save(p, a) <=> UpdateCourse_Save(p, b)
    /\ DeleteCourse_Get(p, a) <=> DeleteCourse_Get(p, b)
    /\ DeleteCourse_Delete(p, a) <=> DeleteCourse_Delete(p, b)

\* C6. Degraded mode equals cache disabled: while the backing store fails
\* every call, each step of each operation of a service with a Redis handle
\* is the step a service without one takes from the same state, and
\* conversely: same repository effect, same returned value and error, no
\* cached value served, the cache left as it was.
C6_DegradedEqualsNoCache ==
    [][~backendUp => \A p \in Procs : SameStep(p, TRUE, FALSE)]_vars

\* C6 witness: with the backing store unreachable, GetAllCourses of a service
\* with a Redis handle has returned the repository's list while the list key
\* holds an entry.
C6_Witness ==
    /\ redisService /\ ~backendUp
    /\ last.done /\ last.op = "GetAllCourses" /\ last.err = NoErr /\ ~last.hit
    /\ last.pre = "valid"

\* The key a step's event is about.
KeyOf(e) == IF e.id = "" THEN CoursesKey ELSE CourseKey(e.id)

\* GetCourseByID or GetAllCourses has just returned a value.
ReadReturned ==
    last.done /\ last.op \in {"GetCourseByID", "GetAllCourses"} /\ last.err = NoErr

\* C7 as stated. Bounded staleness: every value returned by GetCourseByID or
\* GetAllCourses was the store's value at some instant no more than CacheTTL
\* before the read returned.
C7_StalenessWithinTTL ==
    ReadReturned => now - last.asOf <= CacheTTL

\* C7 amended. A value served from the cache was the store's value at some
\* instant less than CacheTTL plus the populating call's delay between its
\* repository read and its cache put before the read returned; a value read
\* from the repository was the store's value no longer ago than the time the
\* call took from that read to its return.
C7_StalenessWithinTTLPlusDelay ==
    ReadReturned =>
        IF last.hit THEN now - last.asOf < CacheTTL + last.slack
        ELSE now - last.asOf <= last.slack

\* C7 witness: a read has returned from the cache a value that stopped being
\* the store's value more than CacheTTL ago.
C7_Witness ==
    ReadReturned /\ last.hit /\ now - last.asOf > CacheTTL

\* C8 as stated. Invalidate then get is a Miss: after RedisService.DeleteCourse
\* of an id returns, a GetCourse of that id returns a nil course.
C8_GetAfterDeleteMisses ==
    (last.op = "DeleteCourse" /\ last.step = "layer") =>
        \A up \in BOOLEAN : GetCourse(cache, last.id, now, up).course = Nil

\* C8 amended. After RedisService.DeleteCourse of an id returns without error,
\* an immediately following GetCourse of that id returns a nil course, whether
\* or not the key held an entry and whether or not the backend answers the get.
C8_GetAfterDeleteWithoutErrorMisses ==
    (last.op = "DeleteCourse" /\ last.step = "layer" /\ last.err = NoErr) =>
        \A up \in BOOLEAN : GetCourse(cache, last.id, now, up).course = Nil

\* C8 witness: DeleteCourse has returned without error for a key that held a
\* course.
C8_Witness ==
    /\ last.op = "DeleteCourse" /\ last.step = "layer" /\ last.err = NoErr
    /\ last.pre = "valid"

\* C9. Put then get returns the value: after SetCourse(v) returns without
\* error, GetCourse(v.ID) at every instant before CacheTTL has elapsed, the key
\* untouched, returns v without error; likewise SetCourses(l) and GetCourses.
C9_GetAfterSetReturnsValue ==
    /\ (last.op = "SetCourse" /\ last.step = "layer" /\ last.err = NoErr) =>
          \A d \in 0..(CacheTTL - 1) :
              GetCourse(cache, last.id, now + d, TRUE) = [course |-> last.val, err |-> NoErr]
    /\ (last.op = "SetCourses" /\ last.step = "layer" /\ last.err = NoErr) =>
          \A d \in 0..(CacheTTL - 1) :
              GetCourses(cache, now + d, TRUE) = [courses |-> <<last.val>>, err |-> NoErr]

\* C9 witness: SetCourse has stored a course that has an image over an entry
\* the key held before.
C9_Witness ==
    /\ last.op = "SetCourse" /\ last.step = "layer" /\ last.err = NoErr
    /\ last.val # <<>> /\ last.val[1].image_url # Nil
    /\ last.pre = "valid"

\* C10. Decode failure is a Miss: a read of a service with a healthy backend
\* that finds bytes that do not decode under its key does not return from the
\* cache, goes on to the repository and leaves the key as it is; a populate
\* that finds such bytes returns the repository's value without error and
\* leaves under the key an encoding that decodes to that value.
C10_DecodeFailureIsMiss ==
    /\ (last.step = "cache" /\ last.pre = "garbage" /\ Healthy) =>
          /\ ~last.done
          /\ pc[last.proc] \in {"get_repo", "getall_repo"}
          /\ EntryKind(cache, KeyOf(last), now) = "garbage"
    /\ (last.step = "set" /\ last.pre = "garbage" /\ Healthy) =>
          /\ last.done /\ last.err = NoErr /\ ~last.hit
          /\ EntryKind(cache, KeyOf(last), now) = "valid"
          /\ last.op = "GetCourseByID" =>
                GetCourse(cache, last.id, now, TRUE) = [course |-> last.val, err |-> NoErr]
          /\ last.op = "GetAllCourses" =>
                GetCourses(cache, now, TRUE) = [courses |-> <<last.val>>, err |-> NoErr]

\* C10 witness: the populate of a read has overwritten bytes that do not decode.
C10_Witness ==
    /\ last.step = "set" /\ last.pre = "garbage" /\ Healthy
    /\ last.op = "GetCourseByID"

\* C11. Every written entry has a finite lifetime: every key of the backing
\* store that holds an entry has an expiry, and it lies in the future.
C11_EveryEntryExpires ==
    \A k \in DOMAIN cache :
        cache[k] # NoEntry => cache[k].expires # NoExpiry /\ cache[k].expires > now

\* C12. The cache never originates data: the rows a read holds when it
\* reaches its put are what its repository read returned; a step changes a
\* course key or the list key only by removing the entry, by the put of a read
\* storing an encoding of the rows that read holds, or by the environment
\* damaging the bytes; CreateCourse, UpdateCourse and DeleteCourse steps only
\* ever remove entries.
C12_CacheNeverOriginatesData ==
    [][/\ \A p \in Procs :
            /\ (pc[p] # "get_set" /\ pc'[p] = "get_set") =>
                   lrows'[p] = RepoGetByID(store, lid'[p]).course
            /\ (pc[p] # "getall_set" /\ pc'[p] = "getall_set") =>
                   lrows'[p] = RepoGetAll(store)
       /\ \A k \in Keys :
            cache'[k] # cache[k] =>
                \/ cache'[k] = NoEntry
                \/ last'.op = "corrupt" /\ cache'[k].data = Garbage
                \/ /\ last'.op = "GetCourseByID" /\ last'.step = "set"
                   /\ pc[last'.proc] = "get_set" /\ k = CourseKey(lid[last'.proc])
                   /\ GetCourse(cache', lid[last'.proc], now, TRUE).course
                          = ToResponses(lrows[last'.proc])
                \/ /\ last'.op = "GetAllCourses" /\ last'.step = "set"
                   /\ pc[last'.proc] = "getall_set" /\ k = CoursesKey
                   /\ GetCourses(cache', now, TRUE).courses
                          = <<ToResponses(lrows[last'.proc])>>
       /\ last'.op \in {"CreateCourse", "UpdateCourse", "DeleteCourse"} =>
            \A k \in Keys : cache'[k] = cache[k] \/ cache'[k] = NoEntry
      ]_vars

\* C12 witness: a course created in this run has been read from the
\* repository and put under its key.
C12_Witness ==
    /\ last.op = "GetCourseByID" /\ last.step = "set" /\ last.done /\ Healthy
    /\ last.id = Id(Seeded + 1)
    /\ EntryKind(cache, CourseKey(last.id), now) = "valid"

\* C13. Idempotent convergence of racing populates: of two concurrent
\* GetCourseByID calls that both missed, each one that reads the repository
\* returns the repository's value v without error, each put that reaches the
\* backing store leaves exactly v under the key, and whatever the key holds at
\* any moment of the race decodes to v.
C13_RacingPopulatesConverge ==
    /\ (last.op = "GetCourseByID" /\ last.step = "set") =>
          /\ last.done /\ last.err = NoErr
          /\ last.val = ViewCourse(store, last.id)
          /\ backendUp =>
                GetCourse(cache, last.id, now, TRUE)
                    = [course |-> ViewCourse(store, last.id), err |-> NoErr]
    /\ \A id \in IdSet :
          EntryKind(cache, CourseKey(id), now) # "none" =>
              GetCourse(cache, id, now, TRUE)
                  = [course |-> ViewCourse(store, id), err |-> NoErr]
    /\ EntryKind(cache, CoursesKey, now) = "none"

\* C13 witness: both calls have returned, and the put of the second found the
\* entry the put of the first had left.
C13_Witness ==
    /\ \A p \in Procs : pc[p] = "idle"
    /\ last.op = "GetCourseByID" /\ last.step = "set" /\ last.pre = "valid"
    /\ backendUp
    /\ GetCourse(cache, last.id, now, TRUE).course = last.val

\* C14. Cache keys are deterministic and collision-free: different ids give
\* different entity keys; no entity key is the list key, a session key or a
\* rate-limit key; what SetCourse stored GetCourse finds and DeleteCourse
\* removes, touching that one key; what SetCourses stored GetCourses finds and
\* InvalidateCoursesCache removes, touching that one key; and each key only
\* ever holds what the methods of its own kind wrote.
C14_KeysDeterministicAndDisjoint ==
    /\ \A a, b \in KeyArguments :
          /\ CourseKey(a) = CourseKey(b) => a = b
          /\ CourseKey(a) # CoursesKey
          /\ CourseKey(a) # SessionKey(b)
          /\ CourseKey(a) # RateLimitKey(b)
    /\ (last.op = "SetCourse" /\ last.err = NoErr) =>
          /\ GetCourse(cache, last.id, now, TRUE).course = last.val
          /\ Touched(cache, DeleteCourse(cache, last.id, TRUE).cache) = {CourseKey(last.id)}
          /\ GetCourse(DeleteCourse(cache, last.id, TRUE).cache, last.id, now, TRUE).course
                 = Nil
    /\ (last.op = "SetCourses" /\ last.err = NoErr) =>
          /\ GetCourses(cache, now, TRUE).courses = <<last.val>>
          /\ Touched(cache, InvalidateCoursesCache(cache, TRUE).cache) = {CoursesKey}
          /\ GetCourses(InvalidateCoursesCache(cache, TRUE).cache, now, TRUE).courses = Nil
    /\ \A k \in DOMAIN cache :
          cache[k].data.kind =
              IF cache[k] = NoEntry THEN "none"
              ELSE IF k = CoursesKey THEN "array"
              ELSE IF k \in Keys THEN "object"
              ELSE IF k \in {RateLimitKey(u) : u \in UserIDs} THEN "int"
              ELSE "string"

\* C14 witness: SetCourse has stored a course while the list key, a session
\* key and a rate-limit key hold entries.
C14_Witness ==
    /\ last.op = "SetCourse" /\ last.err = NoErr
    /\ cache[CoursesKey] # NoEntry
    /\ \E x \in SessionIDs : cache[SessionKey(x)] # NoEntry
    /\ \E u \in UserIDs : cache[RateLimitKey(u)] # NoEntry

\* C15. An empty identifier fails loudly: GetCourse of the empty string
\* returns an error of its own to the caller; it is not answered with a miss,
\* and it does not ask the backing store, whose failure it would otherwise
\* return.
C15_EmptyIdentifierRejected ==
    (last.op = "GetCourse" /\ last.id = "") =>
        last.err # NoErr /\ last.err # ErrRedis

\* C16. Codec round-trip: every CourseResponse, its image absent, present or
\* present and empty, decodes from its encoding to itself without error; so
\* does every list, the empty one included, with its length and order; and
\* what SetCourse and SetCourses left in the backing store decodes to the
\* value they were given.
C16_CodecRoundTrip ==
    /\ \A v \in CodecValues(ZeroResponse) :
          UnmarshalCourse(MarshalCourse(v)) = [value |-> v, err |-> NoErr]
    /\ UnmarshalCourses(MarshalCourses(<<>>)) = [value |-> <<>>, err |-> NoErr]
    /\ (last.op = "SetCourse" /\ last.step = "layer" /\ last.err = NoErr) =>
          /\ <<UnmarshalCourse(cache[CourseKey(last.id)].data).value>> = last.val
          /\ \A v \in CodecValues(last.val[1]) :
                UnmarshalCourse(MarshalCourse(v)) = [value |-> v, err |-> NoErr]
    /\ (last.op = "SetCourses" /\ last.step = "layer" /\ last.err = NoErr) =>
          /\ UnmarshalCourses(cache[CoursesKey].data).value = last.val
          /\ UnmarshalCourses(MarshalCourses(last.val)) = [value |-> last.val, err |-> NoErr]
          /\ Len(UnmarshalCourses(MarshalCourses(last.val)).value) = Len(last.val)
          /\ \A i \in 1..Len(last.val) :
                UnmarshalCourses(MarshalCourses(last.val)).value[i] = last.val[i]

\* C16 witness: SetCourses has stored a list of two courses, the first
\* without and the second with an image.
C16_Witness ==
    /\ last.op = "SetCourses" /\ last.step = "layer" /\ last.err = NoErr
    /\ Len(last.val) = 2
    /\ last.val[1].image_url = Nil /\ last.val[2].image_url # Nil
    /\ cache[CoursesKey].data = MarshalCourses(last.val)

\* The operations of the course service.
CourseOps ==
    {"CreateCourse", "GetAllCourses", "GetCourseByID", "UpdateCourse", "DeleteCourse"}

\* C18. A repository failure is returned and leaves the cache unchanged: the
\* step in which an operation's repository call fails returns no value and an
\* error and changes no key; the steps of an operation up to and including its
\* repository calls change no key; CreateCourse returns the repository's error
\* as it is; GetCourseByID turns record-not-found into "course not found" and
\* the key of that id stays as it was.
C18_RepositoryFailureLeavesCache ==
    [][/\ (last'.op \in CourseOps /\ last'.done /\ last'.repoErr # NoErr) =>
            /\ last'.err # NoErr /\ last'.val = <<>>
            /\ cache' = cache
            /\ last'.op = "CreateCourse" => last'.err = last'.repoErr
            /\ (last'.op = "GetCourseByID" /\ last'.repoErr = ErrRecordNotFound) =>
                   /\ last'.err = ErrCourseNotFound
                   /\ cache'[CourseKey(last'.id)] = cache[CourseKey(last'.id)]
            /\ (last'.op = "GetCourseByID" /\ last'.repoErr # ErrRecordNotFound) =>
                   last'.err = last'.repoErr
       /\ (last'.op \in CourseOps /\ last'.step \notin {"set", "invalidate"}) =>
            cache' = cache
      ]_vars

\* C18 witness: GetCourseByID of an id the repository does not know has
\* returned "course not found" while the list is cached.
C18_Witness ==
    /\ last.op = "GetCourseByID" /\ last.done
    /\ last.repoErr = ErrRecordNotFound /\ last.err = ErrCourseNotFound
    /\ Healthy
    /\ EntryKind(cache, CoursesKey, now) = "valid"
    /\ cache[CourseKey(last.id)] = NoEntry

\* --- C17
\* The step just taken belongs to EnrollStudent.
EnrollStep == last.op = "EnrollStudent"

CourseStatus ==
    IF last.op = "UpdateCourse" THEN UpdateCourseStatus(last.err)
    ELSE DeleteCourseStatus(last.err)

\* C19: an UpdateCourse or DeleteCourse for a course id the repository does
\* not hold is answered with 404, not with 500, and leaves the store as it is.
C19_MissingCourseIsNotFound ==
    [][(/\ last'.op \in {"UpdateCourse", "DeleteCourse"}
        /\ last'.done
        /\ last'.repoErr = ErrRecordNotFound)
         => (CourseStatus' = StatusNotFound /\ store' = store)]_vars

\* --- C20
\* C20: Delete(id) of the course repository and of the enrollment repository
\* returns no error when no record has that id, and leaves the table as it is.
C20_RepositoryDeleteIdempotent ==
    /\ \A id \in IdSet :
         store[id] = NoRow => RepoDelete(store, id) = [store |-> store, err |-> NoErr]
    /\ \A n \in 1..(MaxOps + Seeded) :
         (\A e \in enrollments : e.id # EnrollmentId(n))
            => EnrollmentDelete(enrollments, EnrollmentId(n))
                 = [enrollments |-> enrollments, err |-> NoErr]

\* --- C21
\* The header carries, after "Bearer ", a well-formed HS256 token signed with
\* the secret, not expired at time t.
CarriesValidToken(h, t) ==
    /\ Len(h) = 3 /\ h[1] = "Bearer" /\ h[2] = " "
    /\ h[3].parts = 3 /\ h[3].alg = "HS256" /\ h[3].sig = "valid" /\ t < h[3].exp

C22_PaginationMetadata ==
    (last.op = "GetCoursesWithPagination" /\ last.err = NoErr)
        => LET m == last.val[1]
               page == IF last.args.Page <= 0 THEN 1 ELSE last.args.Page
               limit == IF last.args.Limit <= 0 THEN 10
                        ELSE IF last.args.Limit > 100 THEN 100
                        ELSE last.args.Limit
           IN /\ m.CurrentPage = page
              /\ m.Limit = limit
              /\ m.TotalCount = last.totalCount
              /\ m.TotalPages * limit >= last.totalCount
              /\ m.TotalPages >= 0
              /\ m.TotalPages > 0 => (m.TotalPages - 1) * limit < last.totalCount
              /\ m.HasNext <=> page < m.TotalPages
              /\ m.HasPrev <=> page > 1

\* A call with a Page below 1 and a Limit above the maximum whose count does
\* not fill the last page.
C22_Witness ==
    /\ last.op = "GetCoursesWithPagination" /\ last.err = NoErr
    /\ last.args.Page <= 0 /\ last.args.Limit > MaxPageSize
    /\ last.totalCount = 2 * MaxPageSize + 1
    /\ last.val[1].TotalPages = 3 /\ last.val[1].HasNext /\ ~last.val[1].HasPrev

\* --- C23
\* C23: the cached course list expires 5 minutes after the populate wrote it,
\* so no GetAllCourses is answered from an entry put more than 5 minutes
\* earlier.
C23_ListExpiresAfterFiveMinutes ==
    /\ cache[CoursesKey] # NoEntry
         => cache[CoursesKey].expires = prov[CoursesKey].put + 5
    /\ (last.op = "GetAllCourses" /\ last.step = "cache" /\ last.hit)
         => now - prov[CoursesKey].put <= 5

ReadSteps ==
    [GetCourseByID |-> [cache |-> "idle", repo |-> "get_repo", set |-> "get_set"],
     GetAllCourses |-> [cache |-> "idle", repo |-> "getall_repo", set |-> "getall_set"]]

\* What the cache holds at time t for the key a read of id looks at.
Cached(op, c, id, t) ==
    IF op = "GetCourseByID" THEN GetCourse(c, id, t, TRUE).course
    ELSE GetCourses(c, t, TRUE).courses

\* The value a read returns, as the cache holds values.
AsCached(op, val) == IF op = "GetCourseByID" THEN val ELSE <<val>>

\* C25: on a hit GetCourseByID and GetAllCourses return the decoded cached
\* value and neither query the repository nor write to the cache; on a miss
\* they query the repository once and, if that succeeds, issue one cache put
\* carrying the value they return; each of the three calls is made at most
\* once per operation, in this order.
C25_HitAndMissPaths ==
    [][last'.op \in DOMAIN ReadSteps =>
        LET p == last'.proc
            op == last'.op
            at == ReadSteps[op]
        IN /\ pc[p] = at[last'.step]
           /\ store' = store
           /\ last'.step = "cache" =>
                /\ cache' = cache
                /\ IF last'.hit
                   THEN /\ redisService /\ backendUp
                        /\ last'.done /\ last'.err = NoErr
                        /\ pc'[p] = "idle"
                        /\ Cached(op, cache, last'.id, now) = AsCached(op, last'.val)
                   ELSE /\ ~last'.done
                        /\ pc'[p] = at.repo
                        /\ (redisService /\ backendUp)
                              => Cached(op, cache, last'.id, now) = Nil
           /\ last'.step = "repo" =>
                /\ cache' = cache
                /\ IF last'.repoErr = NoErr
                   THEN /\ ~last'.done
                        /\ pc'[p] = at.set
                        /\ lrows'[p] = IF op = "GetCourseByID"
                                       THEN RepoGetByID(store, last'.id).course
                                       ELSE RepoGetAll(store)
                   ELSE last'.done /\ last'.err # NoErr /\ pc'[p] = "idle"
           /\ last'.step = "set" =>
                /\ last'.done /\ last'.err = NoErr
                /\ pc'[p] = "idle"
                /\ last'.val = ToResponses(lrows[p])
                /\ IF redisService /\ backendUp
                   THEN /\ Cached(op, cache', last'.id, now) = AsCached(op, last'.val)
                        /\ \A k \in Keys :
                             cache'[k] # cache[k] =>
                                k = IF op = "GetCourseByID" THEN CourseKey(last'.id)
                                    ELSE CoursesKey
                   ELSE cache' = cache]_vars

\* A GetCourseByID has been answered from the cache while the store holds
\* another value for the course: the repository was not queried.
C25_Witness ==
    /\ last.op = "GetCourseByID" /\ last.step = "cache" /\ last.hit
    /\ last.val # ViewCourse(store, last.id)
    /\ pc[last.proc] = "idle"

\* --- C26
\* C26: when EnrollStudent calls for one (student email, course) pair run
\* concurrently, never two rows are stored for the pair, and a call that the
\* repository turns down because the pair is enrolled is reported as "student
\* is already enrolled in this course", a 409, never as an internal error.
C26_ConcurrentDuplicateIsConflict ==
    /\ \A a, b \in enrollments :
          (a.student_email = b.student_email /\ a.course_id = b.course_id) => a = b
    /\ (/\ EnrollStep /\ last.step \in {"exists", "insert"}
        /\ last.done /\ last.repoErr # ErrDB
        /\ \E e \in enrollments : e.student_email = last.email /\ e.course_id = last.id)
          => /\ last.err = ErrAlreadyEnrolled
             /\ EnrollStudentStatus(last.err) = StatusConflict

\* --- C27
\* C27: UpdateCourse only modifies a course that exists, and a course that is
\* absent from the store, as it is once DeleteCourse has returned success,
\* stays absent until a create: no step of UpdateCourse brings it back.
C27_UpdateNeverResurrects ==
    [][/\ (last'.op = "UpdateCourse" /\ store' # store) => store[last'.id] # NoRow
       /\ \A id \in IdSet :
            (store[id] = NoRow /\ store'[id] # NoRow) => last'.op = "CreateCourse"]_vars

\* --- C28
\* C28: every enrollment refers to a course the store holds, also when a
\* DeleteCourse runs between the course check and the insert of an
\* EnrollStudent: such an insert fails and stores nothing.
C28_EnrollmentsReferToCourses ==
    /\ \A e \in enrollments : store[e.course_id] # NoRow
    /\ (EnrollStep /\ last.step = "insert" /\ store[last.id] = NoRow)
          => /\ last.done /\ last.err # NoErr
             /\ \A e \in enrollments : e.course_id # last.id

\* The course was deleted between the course check and the insert of an
\* EnrollStudent, and the insert has been refused.
C28_Witness ==
    /\ EnrollStep /\ last.step = "insert" /\ last.err = ErrForeignKeyViolation
    /\ store[last.id] = NoRow

\* --- C29
\* C29: whether the course service has a Redis handle is decided by the ping
\* at start-up and never changes; a service without the handle never reads
\* or writes the cache, also once the backend is reachable; a service with
\* the handle keeps it through outages, which fail no operation.
C29_CacheDecidedAtStartup ==
    [][/\ redisService' = redisService
       /\ ~redisService =>
            /\ cache' = cache
            /\ ~last'.hit
            /\ \A k \in Keys : cache[k] = NoEntry
       /\ last'.proc \in Procs => last'.err # ErrRedis]_vars

\* The ping failed at start-up, the backend has become reachable, and a
\* GetCourseByID has read the repository and returned without a put.
C29_Witness ==
    /\ ~redisService /\ backendUp
    /\ last.op = "GetCourseByID" /\ last.step = "set" /\ last.done /\ last.err = NoErr
    /\ cache[CourseKey(last.id)] = NoEntry

\* --- C30
\* C30: in every interleaving of concurrent callers' read and increment
\* steps, the counter CheckRateLimit stores for a user never exceeds the
\* limit of the call that incremented it, so no more than limit calls are
\* answered allowed while the counter lives.
C30_CounterNeverExceedsLimit ==
    (last.op = "CheckRateLimit" /\ last.err = NoErr /\ last.val = <<TRUE>>)
        => /\ cache[RateLimitKey(last.id)] # NoEntry
           /\ cache[RateLimitKey(last.id)].data.n <= last.args.limit

====
